---- MODULE Spec2Model ----
(***************************************************************************)
(* Model of the Powker browser clients: the lobby controller (PokerClient),*)
(* the game controller (GameRoomClient, static/js/game.js) and the ability *)
(* dialog (AbilitySelectionManager).                                       *)
(*                                                                         *)
(* Conventions.  A JavaScript value that may be null/undefined is an       *)
(* option: None (the empty set) or Some(v).  A string is a TLA+ string; a  *)
(* card string, which the code takes apart, is a sequence of characters.   *)
(* Every handler is one action: JavaScript runs a callback to completion.  *)
(***************************************************************************)
EXTENDS Integers, Sequences, FiniteSets, TLC

VARIABLES
    location,          \* window.location: the page the browser is on
    loaded,            \* DOMContentLoaded has run the page's controller constructor
    localStorage,      \* localStorage['playerToken'] (option)
    issuedToken,       \* server side: token of the last transition_to_game sent (option)
    socket,            \* this.socket: None, or Some("io") once initializeSocket ran
    gameId,            \* this.gameId (string read from #current-game-id; option)
    connectionStatus,  \* #connection-status class and #status-text
    sent,              \* socket.emit: outbound messages not yet taken by the server
    actionLog,         \* #actions-log: the .action-item children
    lastEvent,         \* the callback that ran last, with its argument
    gameState,         \* this.gameState (option)
    view,              \* the five derived DOM regions of the game page
    currentAbility,    \* AbilitySelectionManager.currentAbility (option)
    currentChoices,    \* AbilitySelectionManager.currentChoices (option)
    overlayHidden,     \* the overlay carries the class 'hidden'
    content,           \* the dialog's title, message and #ability-selection-content
    username,          \* PokerClient.username
    currentLobby,      \* PokerClient.currentLobby (option)
    isHost,            \* PokerClient.isHost
    isReady,           \* PokerClient.isReady
    screen,            \* id of the .screen element carrying the class 'active' (option)
    errors,            \* the error slots: text and whether the class 'show' is set
    timers,            \* pending setTimeout callbacks of showError, oldest first
    lobbyView          \* the lobby page's elements the controller writes to

joinVars    == <<location, loaded, localStorage, issuedToken, socket, gameId,
                 connectionStatus>>
viewVars    == <<gameState, view>>
abilityVars == <<currentAbility, currentChoices, overlayHidden, content>>
lobbyVars   == <<username, currentLobby, isHost, isReady, screen, errors, timers,
                 lobbyView>>
vars == <<location, loaded, localStorage, issuedToken, socket, gameId,
          connectionStatus, sent, actionLog, lastEvent, gameState, view,
          currentAbility, currentChoices, overlayHidden, content,
          username, currentLobby, isHost, isReady, screen, errors, timers,
          lobbyView>>

----------------------------------------------------------------------------
(* Bounds of the exploration *)

\* the environment holds back new events while this many log entries are shown
MaxLog == 3
\* ... and while this many outbound messages wait for the server
MaxInFlight == 2

----------------------------------------------------------------------------
(* Option values and small helpers *)

None == {}
Some(v) == {v}
Get(o) == CHOOSE v \in o : TRUE

\* JavaScript truthiness of a string-or-null value
TruthyStr(o) == o # None /\ Get(o) # ""

Last(s) == s[Len(s)]

Event(name, data) == [name |-> name, data |-> data]
NoData == [none |-> TRUE]

----------------------------------------------------------------------------
(* The action log (game.js addActionLog) *)

LogCap == 20

addActionLog_dropsNewest(log, message, type) ==
    LET appended == Append(log, [message |-> message, type |-> type])
    IN  IF Len(appended) > LogCap THEN log ELSE appended

\* appendChild, then drop items[0] when more than 20 .action-item exist
addActionLog(log, message, type) ==
    LET appended == Append(log, [message |-> message, type |-> type])
    IN  IF Len(appended) > LogCap THEN Tail(appended) ELSE appended

Logged(log, message) == \E i \in 1..Len(log) : log[i].message = message

----------------------------------------------------------------------------
(* Data the server and the user can supply *)

Tokens     == {"tokA", "tokB"}
\* playerToken of transition_to_game: an opaque string, possibly empty
TokenInputs == Tokens \cup {""}
GameIds    == {"g1"}
\* text of #current-game-id as the server renders the game page
GameIdTexts(loc) == {loc.gameId, "-----", ""}

LobbyPage == [page |-> "lobby", gameId |-> ""]
GamePage(g) == [page |-> "game", gameId |-> g]

----------------------------------------------------------------------------
(* Web Storage, key 'playerToken' *)

setItem(value) == Some(value)
getItem(storage) == storage
removeItem == None

----------------------------------------------------------------------------
(* A freshly served page: controller fields as the constructors set them,   *)
(* DOM regions as the page markup has them                                  *)

\* game.js serves the same placeholders in its else-branches ("Default
\* placeholders"); the page template itself is not part of the sources
InitialMarkup ==
    [ banner       |-> [phase |-> "-----", pot |-> "0", bet |-> "0"],
      turnList     |-> << [cls |-> "no-players", text |-> "No players available"] >>,
      holeCards    |-> << [cls |-> "card-placeholder", text |-> "Card 1"],
                          [cls |-> "card-placeholder", text |-> "Card 2"] >>,
      boardCards   |-> << [cls |-> "hidden", text |-> "Flop 1"],
                          [cls |-> "hidden", text |-> "Flop 2"],
                          [cls |-> "hidden", text |-> "Flop 3"],
                          [cls |-> "hidden", text |-> "Turn"],
                          [cls |-> "hidden", text |-> "River"] >>,
      abilityCards |-> << [cls |-> "no-abilities", text |-> "No abilities available"] >> ]

\* the dialog as createSelectionWindow builds it: default title and message,
\* an empty #ability-selection-content
EmptyContent ==
    [ title |-> "Choose Action", message |-> "Select an option:",
      labels |-> <<>>, selects |-> <<>>, radios |-> <<>>, grids |-> <<>>,
      dump |-> None ]

ErrorSlots == {"username-error", "create-lobby-error", "join-lobby-error"}

\* the error slots as served: empty and not shown
NoErrors == [slot \in ErrorSlots |-> [text |-> "", show |-> FALSE]]

\* the lobby page's elements before the controller has written to them
\* (None: as the page template, which is not part of the sources, has it)
ServedLobbyView ==
    [ playerUsername |-> None, title |-> None, codeText |-> None,
      maxPlayerCount |-> None, playerCount |-> None, playersList |-> None,
      displaySmallBlind |-> None, displayBigBlind |-> None,
      displayStartingFunds |-> None, hostControlsDisplay |-> None,
      startButton |-> None, readyButton |-> None,
      editorOpen |-> None, editor |-> None ]

FreshPage ==
    /\ loaded' = FALSE
    /\ username' = ""
    /\ currentLobby' = None
    /\ isHost' = FALSE
    /\ isReady' = FALSE
    /\ screen' = None
    /\ errors' = NoErrors
    /\ timers' = << >>
    /\ lobbyView' = ServedLobbyView
    /\ socket' = None
    /\ gameId' = None
    /\ connectionStatus' = None
    /\ actionLog' = <<>>
    /\ gameState' = None
    /\ view' = InitialMarkup
    /\ currentAbility' = None
    /\ currentChoices' = None
    /\ overlayHidden' = TRUE
    /\ content' = EmptyContent

Init ==
    /\ location = LobbyPage
    /\ loaded = FALSE
    /\ localStorage = None
    /\ issuedToken = None
    /\ socket = None
    /\ gameId = None
    /\ connectionStatus = None
    /\ sent = <<>>
    /\ actionLog = <<>>
    /\ lastEvent = Event("navigate", NoData)
    /\ username = ""
    /\ currentLobby = None
    /\ isHost = FALSE
    /\ isReady = FALSE
    /\ screen = None
    /\ errors = NoErrors
    /\ timers = << >>
    /\ lobbyView = ServedLobbyView
    /\ gameState = None
    /\ view = InitialMarkup
    /\ currentAbility = None
    /\ currentChoices = None
    /\ overlayHidden = TRUE
    /\ content = EmptyContent

\* the environment's pacing (see MaxLog, MaxInFlight)
Quiet == Len(actionLog) < MaxLog /\ Len(sent) < MaxInFlight

OnGamePage  == location.page = "game" /\ loaded /\ socket # None
OnLobbyPage == location.page = "lobby" /\ loaded

----------------------------------------------------------------------------
(* Lobby controller: transition to the game page *)

\* showScreen(screenId): 'active' is removed from every screen, added to this one
showScreen(screenId) == Some(screenId)

\* DOMContentLoaded on the lobby page: new PokerClient()
PokerClient ==
    /\ location.page = "lobby" /\ ~loaded
    /\ loaded' = TRUE
    /\ socket' = Some("io")
    /\ username' = ""
    /\ currentLobby' = None
    /\ isHost' = FALSE
    /\ isReady' = FALSE
    /\ screen' = showScreen("username-screen")
    /\ lastEvent' = Event("PokerClient", NoData)
    /\ UNCHANGED <<errors, timers, lobbyView>>
    /\ UNCHANGED <<location, localStorage, issuedToken, gameId, connectionStatus,
                   sent, actionLog, gameState, view, currentAbility,
                   currentChoices, overlayHidden, content>>

\* a plausible slip: the wrong field of the payload is stored
transition_to_game_storesGameId(data) ==
    /\ OnLobbyPage
    /\ Quiet
    /\ issuedToken' = Some(data.playerToken)
    /\ localStorage' = setItem(data.gameId)
    /\ location' = GamePage(data.gameId)
    /\ FreshPage
    /\ lastEvent' = Event("transition_to_game", data)
    /\ UNCHANGED sent

\* socket.on('transition_to_game'): store the token, then navigate.
\* issuedToken is the server's side of it: the token it put in the event.
transition_to_game(data) ==
    /\ OnLobbyPage
    /\ Quiet
    /\ issuedToken' = Some(data.playerToken)
    /\ localStorage' = setItem(data.playerToken)
    /\ location' = GamePage(data.gameId)
    /\ FreshPage
    /\ lastEvent' = Event("transition_to_game", data)
    /\ UNCHANGED sent

----------------------------------------------------------------------------
(* Game controller: construction and join *)

\* a plausible slip: only a missing key is refused, an empty token is sent
joinGame_nullCheckOnly(gid, storage, out, log) ==
    LET log1 == addActionLog(log, "Joining game room...", "system")
        playerToken == getItem(storage)
    IN  IF playerToken = None
        THEN [ sent |-> out, storage |-> storage,
               log  |-> addActionLog(log1, "Error: No authentication token found",
                                     "system") ]
        ELSE [ sent |-> Append(out, [ type |-> "join_game", gameId |-> gid,
                                      playerToken |-> Get(playerToken) ]),
               storage |-> storage,
               log  |-> log1 ]

\* a plausible slip: the token is cleared as soon as join_game is sent
joinGame_clearsToken(gid, storage, out, log) ==
    LET log1 == addActionLog(log, "Joining game room...", "system")
        playerToken == getItem(storage)
    IN  IF ~TruthyStr(playerToken)
        THEN [ sent |-> out, storage |-> storage,
               log  |-> addActionLog(log1, "Error: No authentication token found",
                                     "system") ]
        ELSE [ sent |-> Append(out, [ type |-> "join_game", gameId |-> gid,
                                      playerToken |-> Get(playerToken) ]),
               storage |-> removeItem,
               log  |-> log1 ]

\* joinGame(): the outbound queue, the storage and the log it leaves
joinGame(gid, storage, out, log) ==
    LET log1 == addActionLog(log, "Joining game room...", "system")
        playerToken == getItem(storage)
    IN  IF ~TruthyStr(playerToken)
        THEN [ sent |-> out, storage |-> storage,
               log  |-> addActionLog(log1, "Error: No authentication token found",
                                     "system") ]
        ELSE [ sent |-> Append(out, [ type |-> "join_game", gameId |-> gid,
                                      playerToken |-> Get(playerToken) ]),
               \* "Don't clear token immediately - wait for successful join"
               storage |-> storage,
               log  |-> log1 ]

\* DOMContentLoaded on the game page: new GameRoomClient(), i.e. init()
GameRoomClient(text) ==
    /\ location.page = "game" /\ ~loaded
    /\ loaded' = TRUE
    /\ gameId' = Some(text)
    /\ IF text = "" \/ text = "-----"
       THEN /\ actionLog' = addActionLog(actionLog, "Error: No game ID provided",
                                         "system")
            /\ UNCHANGED <<socket, sent, localStorage>>
       ELSE LET r == joinGame(text, localStorage, sent, actionLog)
            IN  /\ socket' = Some("io")
                /\ sent' = r.sent
                /\ localStorage' = r.storage
                /\ actionLog' = r.log
    /\ lastEvent' = Event("GameRoomClient", [text |-> text])
    /\ UNCHANGED lobbyVars
    /\ UNCHANGED <<location, issuedToken, connectionStatus,
                   gameState, view, currentAbility, currentChoices,
                   overlayHidden, content>>

\* leaveGame(): confirm(), then back to the lobby
leaveGame(ok) ==
    /\ location.page = "game" /\ loaded /\ socket # None
    /\ IF ok
       THEN /\ location' = LobbyPage
            /\ FreshPage
       ELSE UNCHANGED <<location, loaded, socket, gameId, connectionStatus,
                        actionLog, gameState, view, currentAbility,
                        currentChoices, overlayHidden, content, username,
                        currentLobby, isHost, isReady, screen, errors, timers,
                        lobbyView>>
    /\ lastEvent' = Event("leaveGame", [ok |-> ok])
    /\ UNCHANGED <<localStorage, issuedToken, sent>>

\* the user reloads the page, or opens the game URL directly
Reload ==
    /\ loaded
    /\ Quiet
    /\ FreshPage
    /\ lastEvent' = Event("navigate", NoData)
    /\ UNCHANGED <<location, localStorage, issuedToken, sent>>

\* the server takes the oldest outbound message
ServerReceive ==
    /\ sent # <<>>
    /\ sent' = Tail(sent)
    /\ lastEvent' = Event("ServerReceive", NoData)
    /\ UNCHANGED lobbyVars
    /\ UNCHANGED <<location, loaded, localStorage, issuedToken, socket, gameId,
                   connectionStatus, actionLog, gameState, view,
                   currentAbility, currentChoices, overlayHidden, content>>

----------------------------------------------------------------------------
(* Game controller: connection lifecycle and room events *)

updateConnectionStatus(status, text) == Some([status |-> status, text |-> text])

connect_rejoins ==
    /\ OnGamePage
    /\ Quiet
    /\ connectionStatus' = updateConnectionStatus("connected", "Connected")
    /\ sent' = Append(sent, [type |-> "join_game", gameId |-> Get(gameId),
                             playerToken |-> "tokA"])
    /\ lastEvent' = Event("connect", NoData)
    /\ UNCHANGED lobbyVars
    /\ UNCHANGED <<location, loaded, localStorage, issuedToken, socket, gameId,
                   actionLog, gameState, view, currentAbility,
                   currentChoices, overlayHidden, content>>

\* socket.on('connect')
connect ==
    /\ OnGamePage
    /\ Quiet
    /\ connectionStatus' = updateConnectionStatus("connected", "Connected")
    /\ lastEvent' = Event("connect", NoData)
    /\ UNCHANGED lobbyVars
    /\ UNCHANGED <<location, loaded, localStorage, issuedToken, socket, gameId,
                   sent, actionLog, gameState, view, currentAbility,
                   currentChoices, overlayHidden, content>>

disconnect ==
    /\ OnGamePage
    /\ Quiet
    /\ connectionStatus' = updateConnectionStatus("disconnected", "Disconnected")
    /\ actionLog' = addActionLog(actionLog,
                        "Connection lost. Please refresh the page.", "system")
    /\ lastEvent' = Event("disconnect", NoData)
    /\ UNCHANGED lobbyVars
    /\ UNCHANGED <<location, loaded, localStorage, issuedToken, socket, gameId,
                   sent, gameState, view, currentAbility, currentChoices,
                   overlayHidden, content>>

connect_error ==
    /\ OnGamePage
    /\ Quiet
    /\ connectionStatus' = updateConnectionStatus("disconnected", "Connection Error")
    /\ lastEvent' = Event("connect_error", NoData)
    /\ UNCHANGED lobbyVars
    /\ UNCHANGED <<location, loaded, localStorage, issuedToken, socket, gameId,
                   sent, actionLog, gameState, view, currentAbility,
                   currentChoices, overlayHidden, content>>

RoomCounts == {[playersJoined |-> 1, totalPlayers |-> 2]}

game_room_joined(data) ==
    /\ OnGamePage
    /\ Quiet
    /\ actionLog' = addActionLog(actionLog,
                        "Joined game room (" \o ToString(data.playersJoined) \o "/"
                          \o ToString(data.totalPlayers) \o " players)", "system")
    /\ localStorage' = removeItem
    /\ lastEvent' = Event("game_room_joined", data)
    /\ UNCHANGED lobbyVars
    /\ UNCHANGED <<location, loaded, issuedToken, socket, gameId, connectionStatus,
                   sent, gameState, view, currentAbility, currentChoices,
                   overlayHidden, content>>

WaitingMessages == {"Waiting for players"}

waiting_for_players(data) ==
    /\ OnGamePage
    /\ Quiet
    /\ actionLog' = addActionLog(actionLog, data.message, "system")
    /\ lastEvent' = Event("waiting_for_players", data)
    /\ UNCHANGED lobbyVars
    /\ UNCHANGED <<location, loaded, localStorage, issuedToken, socket, gameId,
                   connectionStatus, sent, gameState, view, currentAbility,
                   currentChoices, overlayHidden, content>>

GameErrors == {"Invalid token"}

\* the handler's statements
onGameError(data) ==
    /\ OnGamePage
    /\ actionLog' = addActionLog(actionLog, "Error: " \o data.error, "system")
    /\ lastEvent' = Event("game_error", data)
    /\ UNCHANGED lobbyVars
    /\ UNCHANGED <<location, loaded, localStorage, issuedToken, socket, gameId,
                   connectionStatus, sent, gameState, view, currentAbility,
                   currentChoices, overlayHidden, content>>

game_error(data) == Quiet /\ onGameError(data)

----------------------------------------------------------------------------
(* Strings the code takes apart: sequences of one-character strings *)

UpperAlpha == << "A","B","C","D","E","F","G","H","I","J","K","L","M",
                 "N","O","P","Q","R","S","T","U","V","W","X","Y","Z" >>
LowerAlpha == << "a","b","c","d","e","f","g","h","i","j","k","l","m",
                 "n","o","p","q","r","s","t","u","v","w","x","y","z" >>

toLowerChar(c) ==
    IF \E i \in 1..Len(UpperAlpha) : UpperAlpha[i] = c
    THEN LowerAlpha[CHOOSE i \in 1..Len(UpperAlpha) : UpperAlpha[i] = c]
    ELSE c

toUpperChar(c) ==
    IF \E i \in 1..Len(LowerAlpha) : LowerAlpha[i] = c
    THEN UpperAlpha[CHOOSE i \in 1..Len(LowerAlpha) : LowerAlpha[i] = c]
    ELSE c

\* String.prototype.toLowerCase on a character sequence
toLowerCase(cs) == [i \in 1..Len(cs) |-> toLowerChar(cs[i])]

\* the characters as one TLA+ string (what textContent shows)
RECURSIVE Join(_)
Join(cs) == IF cs = <<>> THEN "" ELSE Head(cs) \o Join(Tail(cs))

\* first index at which sep occurs in cs, 0 if it does not
IndexOf(cs, sep) ==
    LET hits == { i \in 1..(Len(cs) - Len(sep) + 1) :
                      SubSeq(cs, i, i + Len(sep) - 1) = sep }
    IN  IF hits = {} THEN 0 ELSE CHOOSE i \in hits : \A j \in hits : i <= j

\* String.prototype.split with a non-empty separator
RECURSIVE split(_, _)
split(cs, sep) ==
    LET i == IndexOf(cs, sep)
    IN  IF i = 0 THEN << cs >>
        ELSE << SubSeq(cs, 1, i - 1) >>
               \o split(SubSeq(cs, i + Len(sep), Len(cs)), sep)

----------------------------------------------------------------------------
(* parseCard (game.js) *)

SuitHearts   == "{hearts}"
SuitDiamonds == "{diamonds}"
SuitClubs    == "{clubs}"
SuitSpades   == "{spades}"

TypeError == [threw |-> "TypeError"]

\* switch(rank)
shortRank(rank) ==
    CASE rank = << "a","c","e" >>         -> "A"
      [] rank = << "k","i","n","g" >>     -> "K"
      [] rank = << "q","u","e","e","n" >> -> "Q"
      [] rank = << "j","a","c","k" >>     -> "J"
      [] OTHER                            -> Join(rank)

\* switch(suit); the default branch reads suit[0], undefined for ''
suitInfo(suit) ==
    CASE suit = << "h","e","a","r","t","s" >>
           -> [symbol |-> SuitHearts, isRed |-> TRUE]
      [] suit = << "d","i","a","m","o","n","d","s" >>
           -> [symbol |-> SuitDiamonds, isRed |-> TRUE]
      [] suit = << "c","l","u","b","s" >>
           -> [symbol |-> SuitClubs, isRed |-> FALSE]
      [] suit = << "s","p","a","d","e","s" >>
           -> [symbol |-> SuitSpades, isRed |-> FALSE]
      [] OTHER
           -> IF suit = <<>> THEN TypeError
              ELSE [symbol |-> toUpperChar(suit[1]), isRed |-> FALSE]

cardInfo(rankText, info) ==
    IF info = TypeError THEN TypeError
    ELSE [display |-> rankText \o info.symbol, isRed |-> info.isRed]

parsedParts(cardString, parts) ==
    IF Len(parts) # 2
    THEN [display |-> Join(cardString), isRed |-> FALSE]
    ELSE cardInfo(shortRank(parts[1]), suitInfo(parts[2]))

\* { display, isRed }, or TypeError where the code reads suit[0] of ''
parseCard(cardString) ==
    parsedParts(cardString, split(toLowerCase(cardString), << " ", "o", "f", " " >>))

----------------------------------------------------------------------------
(* Game snapshots the server can push *)

AceOfSpades   == << "A","c","e"," ","o","f"," ","S","p","a","d","e","s" >>
ThreeOfHearts == << "3"," ","o","f"," ","H","e","a","r","t","s" >>
KingOfClubs   == << "K","i","n","g"," ","o","f"," ","C","l","u","b","s" >>
TenOfDiamonds == << "1","0"," ","o","f"," ","D","i","a","m","o","n","d","s" >>
Joker         == << "J","o","k","e","r" >>

TypePeek == << "P","e","e","k" >>
TypeBurn == << "B","u","r","n" >>

Seat(name, balance, myTurn, folded, allIn, acted, bet, hole, abilities) ==
    [ Name |-> name, Balance |-> balance, IsMyTurn |-> myTurn,
      IsFolded |-> folded, IsAllIn |-> allIn, HasActedThisRound |-> acted,
      CurrentBet |-> bet, HoleCards |-> hole, Abilities |-> abilities ]

PeekAbility == [Name |-> "Peek", Type |-> TypePeek, Description |-> "See a card"]
BurnAbility == [Name |-> "Burn", Type |-> TypeBurn, Description |-> "Burn a card"]

\* a seat list as the viewing player gets it: own cards and abilities only
SnapshotFlop ==
    [ CurrentPhase |-> Some("Flop"), Pot |-> Some(30),
      TurnManager |-> Some([CurrentBet |-> 10]), CurrentPlayer |-> Some("Ann"),
      Players |-> Some(<< Seat("Ann", 90, TRUE, FALSE, FALSE, FALSE, 0,
                               Some(<< AceOfSpades, ThreeOfHearts >>),
                               Some(<< PeekAbility, BurnAbility >>)),
                          Seat("Bob", 80, FALSE, TRUE, TRUE, TRUE, 10,
                               Some(<<>>), None) >>),
      Board |-> Some(<< KingOfClubs, TenOfDiamonds, Joker >>) ]

\* a later hand: other cards, no ability left
SnapshotPreflop ==
    [ CurrentPhase |-> Some("Preflop"), Pot |-> Some(0),
      TurnManager |-> Some([CurrentBet |-> 0]), CurrentPlayer |-> None,
      Players |-> Some(<< Seat("Bob", 80, TRUE, FALSE, FALSE, FALSE, 0,
                               None, None),
                          Seat("Ann", 100, FALSE, FALSE, FALSE, TRUE, 0,
                               Some(<< KingOfClubs, Joker >>), Some(<<>>)) >>),
      Board |-> Some(<<>>) ]

\* no seat carries hole cards or abilities
SnapshotNoCards ==
    [ CurrentPhase |-> Some("Showdown"), Pot |-> Some(50),
      TurnManager |-> None, CurrentPlayer |-> Some("Bob"),
      Players |-> Some(<< Seat("Ann", 90, FALSE, FALSE, TRUE, TRUE, 20,
                               Some(<<>>), None) >>),
      Board |-> Some(<< KingOfClubs, TenOfDiamonds, Joker, AceOfSpades,
                        ThreeOfHearts >>) ]

\* a snapshot without a seat list
SnapshotNoPlayers ==
    [ CurrentPhase |-> Some("Waiting"), Pot |-> None,
      TurnManager |-> None, CurrentPlayer |-> None,
      Players |-> None, Board |-> None ]

\* the empty object {}
SnapshotEmpty ==
    [ CurrentPhase |-> None, Pot |-> None, TurnManager |-> None,
      CurrentPlayer |-> None, Players |-> None, Board |-> None ]

Snapshots == { SnapshotFlop, SnapshotPreflop, SnapshotNoCards,
               SnapshotNoPlayers, SnapshotEmpty }

\* the gameState / GameState field of a push: a snapshot, or missing
SnapshotFields == { Some(g) : g \in Snapshots } \cup { None }

----------------------------------------------------------------------------
(* The five derived regions (game.js updateGameDisplay and its helpers) *)

Element(cls, text) == [cls |-> cls, text |-> text]

\* `${x}` of an optional string
Interpolate(o) == IF o = None THEN "undefined" ELSE Get(o)

\* lines 169-174: #current-phase, #current-pot, #current-bet-amount
updateGameInfo(g) ==
    [ phase |-> IF TruthyStr(g.CurrentPhase) THEN Get(g.CurrentPhase) ELSE "-----",
      pot   |-> IF g.Pot # None /\ Get(g.Pot) # 0 THEN ToString(Get(g.Pot)) ELSE "0",
      bet   |-> IF g.TurnManager # None
                THEN ToString(Get(g.TurnManager).CurrentBet) ELSE "0" ]

statusClass_allInFirst(player) ==
    IF player.IsMyTurn THEN "current-turn"
    ELSE IF player.IsAllIn THEN "all-in"
    ELSE IF player.IsFolded THEN "folded"
    ELSE IF player.HasActedThisRound THEN "acted"
    ELSE ""

\* the status class added to 'player-turn-item', '' when none is
statusClass(player) ==
    IF player.IsMyTurn THEN "current-turn"
    ELSE IF player.IsFolded THEN "folded"
    ELSE IF player.IsAllIn THEN "all-in"
    ELSE IF player.HasActedThisRound THEN "acted"
    ELSE ""

statusText(player) ==
    IF player.IsMyTurn THEN "Current Turn"
    ELSE IF player.IsFolded THEN "Folded"
    ELSE IF player.IsAllIn THEN "All In"
    ELSE IF player.HasActedThisRound THEN "Waiting"
    ELSE "To Act"

lastAction(player) ==
    IF player.HasActedThisRound /\ ~player.IsFolded /\ ~player.IsAllIn
    THEN (IF player.CurrentBet = 0 THEN "Check" ELSE "Call")
    ELSE IF player.IsFolded THEN "Fold"
    ELSE IF player.IsAllIn THEN "All In"
    ELSE ""

playerItem(player) ==
    [ cls    |-> statusClass(player),
      name   |-> player.Name \o " ($" \o ToString(player.Balance) \o ")",
      status |-> statusText(player),
      bet    |-> "Bet: $" \o ToString(player.CurrentBet),
      action |-> lastAction(player) ]

NoPlayersAvailable == << Element("no-players", "No players available") >>

\* #players-turn-list
updateTurnIndicator(gs) ==
    IF gs = None \/ Get(gs).Players = None
    THEN NoPlayersAvailable
    ELSE LET players == Get(Get(gs).Players)
         IN  [i \in 1..Len(players) |-> playerItem(players[i])]

Min(S) == CHOOSE x \in S : \A y \in S : x <= y

\* Array.prototype.find: the first element satisfying the test, as an option;
\* hits is the set of positions whose element satisfies the test
find(arr, hits) ==
    IF hits = {} THEN None ELSE Some(arr[Min(hits)])

cardElement(info) ==
    Element(IF info.isRed THEN "revealed red-suit" ELSE "revealed black-suit",
            info.display)

appended(parsed, bad) ==
    [ elements |-> [i \in 1..(IF bad = {} THEN Len(parsed) ELSE Min(bad) - 1)
                      |-> cardElement(parsed[i])],
      threw |-> bad # {} ]

firstThrow(parsed) ==
    appended(parsed, { i \in 1..Len(parsed) : parsed[i] = TypeError })

\* the forEach over cards: the elements appended before parseCard throws, if it does
revealedCards(cards) ==
    firstThrow([i \in 1..Len(cards) |-> parseCard(cards[i])])

HolePlaceholders == << Element("card-placeholder", "Card 1"),
                       Element("card-placeholder", "Card 2") >>

HasHoleCards(p) == p.HoleCards # None /\ Len(Get(p.HoleCards)) > 0

myHoleCards(myPlayer) ==
    IF myPlayer # None
    THEN revealedCards(Get(Get(myPlayer).HoleCards))
    ELSE [elements |-> HolePlaceholders, threw |-> FALSE]

\* #hole-cards: left as it is when the snapshot has no seat list
updateHoleCards(gs, old) ==
    IF gs = None \/ Get(gs).Players = None
    THEN [elements |-> old, threw |-> FALSE]
    ELSE LET players == Get(Get(gs).Players)
         IN  myHoleCards(find(players, { i \in 1..Len(players) : HasHoleCards(players[i]) }))

BoardNames == << "Flop 1", "Flop 2", "Flop 3", "Turn", "River" >>
TotalCards == 5

BoardPlaceholders == [i \in 1..TotalCards |-> Element("hidden", BoardNames[i])]

withPlaceholders(shown, n) ==
    IF shown.threw THEN shown
    ELSE [ elements |-> shown.elements \o
                        [i \in 1..(IF n < TotalCards THEN TotalCards - n ELSE 0)
                           |-> Element("hidden", BoardNames[n + i])],
           threw |-> FALSE ]

\* #board-cards
updateBoardCards(g) ==
    IF g.Board # None /\ Len(Get(g.Board)) > 0
    THEN withPlaceholders(revealedCards(Get(g.Board)), Len(Get(g.Board)))
    ELSE [elements |-> BoardPlaceholders, threw |-> FALSE]

HasAbilities(p) == p.Abilities # None /\ Len(Get(p.Abilities)) > 0

abilityCard(ability) ==
    [ cls |-> "ability-card", name |-> ability.Name,
      description |-> ability.Description,
      type |-> ability.Type,
      dataAbility |-> toLowerCase(ability.Type) ]

abilityCards(abilities) == [i \in 1..Len(abilities) |-> abilityCard(abilities[i])]

myAbilities(myPlayer) ==
    IF myPlayer # None
    THEN abilityCards(Get(Get(myPlayer).Abilities))
    ELSE << Element("no-abilities", "No abilities available") >>

\* #ability-cards
updateAbilities(gs) ==
    IF gs = None \/ Get(gs).Players = None
    THEN << Element("no-abilities", "No game state available") >>
    ELSE LET players == Get(Get(gs).Players)
         IN  myAbilities(find(players, { i \in 1..Len(players) : HasAbilities(players[i]) }))

stateLogMessage(g) ==
    "Phase: " \o Interpolate(g.CurrentPhase)
      \o ", Pot: " \o (IF g.Pot = None THEN "undefined" ELSE ToString(Get(g.Pot)))
      \o ", Current Player: "
      \o (IF TruthyStr(g.CurrentPlayer) THEN Get(g.CurrentPlayer) ELSE "None")

\* the regions and the log once the hole and board updates gave `hole`, `board`;
\* an exception out of parseCard ends updateGameDisplay where it is thrown
displayed(gs, v, log, hole, board) ==
    IF hole.threw
    THEN [ view |-> [ banner |-> updateGameInfo(Get(gs)),
                      turnList |-> updateTurnIndicator(gs),
                      holeCards |-> hole.elements,
                      boardCards |-> v.boardCards,
                      abilityCards |-> v.abilityCards ],
           log |-> log ]
    ELSE IF board.threw
    THEN [ view |-> [ banner |-> updateGameInfo(Get(gs)),
                      turnList |-> updateTurnIndicator(gs),
                      holeCards |-> hole.elements,
                      boardCards |-> board.elements,
                      abilityCards |-> v.abilityCards ],
           log |-> log ]
    ELSE [ view |-> [ banner |-> updateGameInfo(Get(gs)),
                      turnList |-> updateTurnIndicator(gs),
                      holeCards |-> hole.elements,
                      boardCards |-> board.elements,
                      abilityCards |-> updateAbilities(gs) ],
           log |-> addActionLog(log, stateLogMessage(Get(gs)), "system") ]

\* a plausible slip: the board region's update is left out
updateGameDisplay_skipsBoard(gs, v, log) ==
    IF gs = None
    THEN [view |-> v, log |-> log]
    ELSE displayed(gs, v, log, updateHoleCards(gs, v.holeCards),
                   [elements |-> v.boardCards, threw |-> FALSE])

\* updateGameDisplay(): the regions and the log it leaves
updateGameDisplay(gs, v, log) ==
    IF gs = None
    THEN [view |-> v, log |-> log]
    ELSE displayed(gs, v, log, updateHoleCards(gs, v.holeCards),
                   updateBoardCards(Get(gs)))

----------------------------------------------------------------------------
(* The join flow: lobby transition, page loads, room events *)

NextJoin ==
    \/ PokerClient
    \/ \E g \in GameIds, t \in TokenInputs :
           transition_to_game([gameId |-> g, playerToken |-> t])
    \/ \E text \in GameIdTexts(location) : GameRoomClient(text)
    \/ \E ok \in BOOLEAN : leaveGame(ok)
    \/ Reload
    \/ ServerReceive
    \/ connect
    \/ disconnect
    \/ connect_error
    \/ \E d \in RoomCounts : game_room_joined(d)
    \/ \E m \in WaitingMessages : waiting_for_players([message |-> m])
    \/ \E e \in GameErrors : game_error([error |-> e])

SpecJoin == Init /\ [][NextJoin]_vars

----------------------------------------------------------------------------
(* Game controller: state pushes *)

shown_keepsFirst(snapshot, r) ==
    /\ gameState' = IF gameState = None THEN snapshot ELSE gameState
    /\ view' = r.view
    /\ actionLog' = r.log

shown(snapshot, r) ==
    /\ gameState' = snapshot
    /\ view' = r.view
    /\ actionLog' = r.log

\* this.gameState = <snapshot>; this.updateGameDisplay()
replaceAndRender(snapshot, log) ==
    shown(snapshot, updateGameDisplay(snapshot, view, log))

game_started(data) ==
    /\ OnGamePage
    /\ Quiet
    /\ replaceAndRender(data.gameState,
                        addActionLog(actionLog, "Game started!", "important"))
    /\ lastEvent' = Event("game_started", data)
    /\ UNCHANGED lobbyVars
    /\ UNCHANGED <<location, loaded, localStorage, issuedToken, socket, gameId,
                   connectionStatus, sent, currentAbility, currentChoices,
                   overlayHidden, content>>

game_state_update(data) ==
    /\ OnGamePage
    /\ Quiet
    /\ replaceAndRender(data.gameState, actionLog)
    /\ lastEvent' = Event("game_state_update", data)
    /\ UNCHANGED lobbyVars
    /\ UNCHANGED <<location, loaded, localStorage, issuedToken, socket, gameId,
                   connectionStatus, sent, currentAbility, currentChoices,
                   overlayHidden, content>>

ActionCall == << "C","a","l","l" >>
ActionFold == << "F","o","l","d" >>

PlayerActions == { [PlayerName |-> "Bob", Action |-> ActionCall, Amount |-> Some(10)],
                   [PlayerName |-> "Ann", Action |-> ActionFold, Amount |-> None] }

actionLogMessage(a) ==
    a.PlayerName \o " " \o Join(toLowerCase(a.Action))
      \o (IF a.Amount # None /\ Get(a.Amount) # 0
          THEN " $" \o ToString(Get(a.Amount)) ELSE "")

player_action_result(data) ==
    /\ OnGamePage
    /\ Quiet
    /\ LET log1 == addActionLog(actionLog, actionLogMessage(data.PlayerAction),
                                "player-action")
       IN  IF data.GameState # None
           THEN replaceAndRender(data.GameState, log1)
           ELSE /\ actionLog' = log1
                /\ UNCHANGED <<gameState, view>>
    /\ lastEvent' = Event("player_action_result", data)
    /\ UNCHANGED lobbyVars
    /\ UNCHANGED <<location, loaded, localStorage, issuedToken, socket, gameId,
                   connectionStatus, sent, currentAbility, currentChoices,
                   overlayHidden, content>>

AbilityMessages == {"Peek used"}

\* "Game state will be updated via separate game_state_update event": whatever
\* else the payload carries is not read
ability_result(data) ==
    /\ OnGamePage
    /\ Quiet
    /\ actionLog' = addActionLog(actionLog, data.message, "player-action")
    /\ lastEvent' = Event("ability_result", data)
    /\ UNCHANGED lobbyVars
    /\ UNCHANGED <<location, loaded, localStorage, issuedToken, socket, gameId,
                   connectionStatus, sent, gameState, view, currentAbility,
                   currentChoices, overlayHidden, content>>

\* click on the i-th ability card: useAbility(ability.Type)
useAbility(i) ==
    /\ OnGamePage
    /\ Quiet
    /\ i \in 1..Len(view.abilityCards)
    /\ view.abilityCards[i].cls = "ability-card"
    /\ LET abilityType == view.abilityCards[i].type
       IN  /\ actionLog' = addActionLog(actionLog,
                               "Using " \o Join(abilityType) \o " ability...",
                               "player-action")
           /\ sent' = Append(sent, [ type |-> "use_ability", gameId |-> Get(gameId),
                                     ability |-> toLowerCase(abilityType) ])
    /\ lastEvent' = Event("useAbility", [index |-> i])
    /\ UNCHANGED lobbyVars
    /\ UNCHANGED <<location, loaded, localStorage, issuedToken, socket, gameId,
                   connectionStatus, gameState, view, currentAbility,
                   currentChoices, overlayHidden, content>>

MaxAbilityCards == 2

----------------------------------------------------------------------------
(* The game view: page load, state pushes, ability clicks *)

NextView ==
    \/ PokerClient
    \/ \E g \in GameIds, t \in Tokens :
           transition_to_game([gameId |-> g, playerToken |-> t])
    \/ GameRoomClient(location.gameId)
    \/ ServerReceive
    \/ \E f \in SnapshotFields : game_started([gameState |-> f])
    \/ \E f \in SnapshotFields : game_state_update([gameState |-> f])
    \/ \E a \in PlayerActions, f \in SnapshotFields :
           player_action_result([PlayerAction |-> a, GameState |-> f])
    \/ \E m \in AbilityMessages, f \in SnapshotFields :
           ability_result([message |-> m, gameState |-> f])
    \/ \E i \in 1..MaxAbilityCards : useAbility(i)

SpecView == Init /\ [][NextView]_vars

----------------------------------------------------------------------------
(* Claims on the join flow (checked under SpecJoin) *)

\* the step just taken ran callback `name` (every action records itself)
Step(name) == lastEvent'.name = name

JoinMsg(gid, token) == [type |-> "join_game", gameId |-> gid, playerToken |-> token]

\* C1: joinGame emits join_game{gameId, playerToken} only when the stored
\* credential is a non-empty string, and then with exactly that credential;
\* when the credential is absent or empty nothing is emitted, the error entry
\* is the last thing logged, and no later step of the page emits a join_game.
C1_JoinNeedsToken ==
    /\ [][ Step("GameRoomClient") =>
             LET text == lastEvent'.data.text
                 runs == text # "" /\ text # "-----"
             IN  IF runs /\ localStorage # None /\ Get(localStorage) # ""
                 THEN sent' = Append(sent, JoinMsg(text, Get(localStorage)))
                 ELSE /\ sent' = sent
                      /\ runs => Last(actionLog').message
                                   = "Error: No authentication token found" ]_vars
    /\ [][ (Len(sent') > Len(sent) /\ Last(sent').type = "join_game")
             => Step("GameRoomClient") /\ Len(sent') = Len(sent) + 1 ]_vars
    /\ [](\A i \in 1..Len(sent) :
             sent[i].type = "join_game" => sent[i].playerToken # "")

\* an empty token was stored, the page ran joinGame, logged the error and sent nothing
C1_Witness ==
    /\ lastEvent.name = "GameRoomClient"
    /\ localStorage = Some("")
    /\ socket # None
    /\ Logged(actionLog, "Error: No authentication token found")
    /\ sent = <<>>

\* C2: the stored token is removed when game_room_joined is received and by
\* no other callback of the game controller: emitting join_game, game_error,
\* waiting_for_players, disconnect and the rest leave it stored.
C2_TokenClearedOnJoinOnly ==
    [][ /\ Step("game_room_joined") => localStorage' = None
        /\ localStorage' # localStorage
             => Step("game_room_joined") \/ Step("transition_to_game") ]_vars

\* join_game went out, a game_error came back, and the token is still stored
C2_Witness ==
    /\ lastEvent.name = "game_error"
    /\ Logged(actionLog, "Joining game room...")
    /\ ~Logged(actionLog, "Error: No authentication token found")
    /\ localStorage \in {Some(t) : t \in Tokens}

\* C3: on transition_to_game{gameId, playerToken} the lobby stores playerToken
\* and navigates to the game page; the playerToken of every join_game the game
\* page emits is the one the server put in its last transition_to_game.
C3_TokenSurvivesTransition ==
    /\ [][ Step("transition_to_game") =>
             /\ localStorage' = Some(lastEvent'.data.playerToken)
             /\ location' = GamePage(lastEvent'.data.gameId)
             /\ ~loaded' ]_vars
    /\ [][ (Step("GameRoomClient") /\ Len(sent') > Len(sent)) =>
             /\ Last(sent').type = "join_game"
             /\ Some(Last(sent').playerToken) = issuedToken ]_vars

\* the second token issued reached the server's queue in a join_game
C3_Witness ==
    /\ lastEvent.name = "GameRoomClient"
    /\ sent # <<>>
    /\ Last(sent).type = "join_game"
    /\ Last(sent).playerToken = "tokB"
    /\ issuedToken = Some("tokB")

----------------------------------------------------------------------------
(* Claims on the game view (checked under SpecView) *)

\* what the five regions show when they are derived from snapshot gs alone
Rendering(gs) ==
    IF gs = None THEN InitialMarkup
    ELSE [ banner       |-> updateGameInfo(Get(gs)),
           turnList     |-> updateTurnIndicator(gs),
           holeCards    |-> updateHoleCards(gs, HolePlaceholders).elements,
           boardCards   |-> updateBoardCards(Get(gs)).elements,
           abilityCards |-> updateAbilities(gs) ]

\* the snapshot field of a push
Carried(e) ==
    IF e.name = "player_action_result" THEN e.data.GameState ELSE e.data.gameState

RecomputedFrom(gs) ==
    gs # None =>
      /\ view'.banner = Rendering(gs).banner
      /\ view'.turnList = Rendering(gs).turnList
      /\ view'.boardCards = Rendering(gs).boardCards
      /\ view'.abilityCards = Rendering(gs).abilityCards
      /\ Get(gs).Players # None => view'.holeCards = Rendering(gs).holeCards

C5_ViewShowsHeldSnapshot ==
    (OnGamePage /\ gameState # None) => view = Rendering(gameState)

----------------------------------------------------------------------------
(* Ability dialog (AbilitySelectionManager): values in markup and back *)

Digits == << "0", "1", "2", "3", "4", "5", "6", "7", "8", "9" >>

\* `${n}` for a non-negative integer: its decimal digits
RECURSIVE toString(_)
toString(n) ==
    IF n < 10 THEN << Digits[n + 1] >>
    ELSE Append(toString(n \div 10), Digits[(n % 10) + 1])

\* `${b}` for a boolean
boolString(b) == IF b THEN "true" ELSE "false"

IsDigit(c) == \E d \in 1..10 : Digits[d] = c
digitValue(c) == (CHOOSE d \in 1..10 : Digits[d] = c) - 1

NaN == [nan |-> TRUE]

\* value of the leading run of digits of cs, acc being the value read so far
RECURSIVE leadingDigits(_, _)
leadingDigits(cs, acc) ==
    IF cs = <<>> \/ ~IsDigit(Head(cs)) THEN acc
    ELSE leadingDigits(Tail(cs), 10 * acc + digitValue(Head(cs)))

\* parseInt on an attribute value: the leading digits, NaN when there are none
parseInt(cs) ==
    IF cs = <<>> \/ ~IsDigit(Head(cs)) THEN NaN ELSE leadingDigits(cs, 0)

\* a || b for an optional array or object (an empty array is truthy)
OrDefault(o, default) == IF o = None THEN default ELSE Get(o)
\* a || b for a number
OrNumber(n, default) == IF n = 0 THEN default ELSE n

----------------------------------------------------------------------------
(* ability_choice_required payloads *)

TagPeek     == << "p","e","e","k" >>
TagManifest == << "m","a","n","i","f","e","s","t" >>
TagTrashman == << "t","r","a","s","h","m","a","n" >>
TagYoink    == << "Y","O","I","N","K" >>
TagChaos    == << "c","h","a","o","s" >>

\* a payload with none of the optional fields
NoOptions ==
    [ abilityUsed |-> << >>, step |-> None, message |-> None, instructions |-> None,
      availablePlayers |-> None, cardOptions |-> None, revealOptions |-> None,
      availableCards |-> None, drawnCard |-> None, availableBurntCards |-> None,
      currentHoleCards |-> None, availableHoleCards |-> None,
      chosenBurntCard |-> None, availableBoardCards |-> None ]

Card(index, card) == [index |-> index, card |-> card, isDrawnCard |-> FALSE]
DrawnCard(index, card) == [index |-> index, card |-> card, isDrawnCard |-> TRUE]

PromptPeek ==
    [NoOptions EXCEPT !.abilityUsed = TagPeek,
       !.availablePlayers = Some(<< [id |-> 2, name |-> "Bob", balance |-> 100],
                                    [id |-> 12, name |-> "Cy", balance |-> 0] >>)]
\* the tag as the seat's ability list spells it; no option list: the defaults
PromptBurn ==
    [NoOptions EXCEPT !.abilityUsed = TypeBurn, !.message = Some("Burn: choose")]
PromptBurnNoOptions ==
    [NoOptions EXCEPT !.abilityUsed = TypeBurn, !.revealOptions = Some(<< >>)]
PromptManifest ==
    [NoOptions EXCEPT !.abilityUsed = TagManifest,
       !.availableCards = Some(<< Card(0, "Ace of Spades"),
                                  DrawnCard(2, "King of Clubs") >>),
       !.drawnCard = Some([Card |-> "King of Clubs", Rank |-> "King",
                           Suit |-> "Clubs"])]
PromptTrashman1 ==
    [NoOptions EXCEPT !.abilityUsed = TagTrashman,
       !.availableBurntCards = Some(<< Card(0, "3 of Hearts"),
                                       Card(1, "10 of Diamonds") >>),
       !.currentHoleCards = Some(<< "Ace of Spades", "King of Clubs" >>)]
\* step 2, the server echoing burnt card 3
PromptTrashman2 ==
    [NoOptions EXCEPT !.abilityUsed = TagTrashman, !.step = Some(2),
       !.availableHoleCards = Some(<< Card(0, "Ace of Spades"),
                                      Card(1, "King of Clubs") >>),
       !.chosenBurntCard = Some([index |-> 3, card |-> "Joker"])]
PromptYoink ==
    [NoOptions EXCEPT !.abilityUsed = TagYoink,
       !.instructions = Some("Swap a card"),
       !.availableHoleCards = Some(<< Card(0, "Ace of Spades"),
                                      Card(1, "King of Clubs") >>),
       !.availableBoardCards = Some(<< Card(2, "3 of Hearts") >>)]
\* a tag with no form of its own
PromptChaos == [NoOptions EXCEPT !.abilityUsed = TagChaos]

Prompts == { PromptPeek, PromptBurn, PromptBurnNoOptions, PromptManifest,
             PromptTrashman1, PromptTrashman2, PromptYoink, PromptChaos }

----------------------------------------------------------------------------
(* Ability dialog: the forms (createPeekInterface .. createGenericInterface) *)

Form(labels, selects, radios, grids, dump) ==
    [ labels |-> labels, selects |-> selects, radios |-> radios, grids |-> grids,
      dump |-> dump ]

Option(value, text) == [value |-> value, text |-> text]

\* a <select>: its options, the first of them (value "") selected
Select(id, placeholder, options) ==
    [ id |-> id, options |-> << Option(<< >>, placeholder) >> \o options,
      value |-> << >> ]

playerOption(p) ==
    Option(toString(p.id),
           p.name \o " ($" \o Join(toString(p.balance)) \o ")")

DefaultCardOptions == << [index |-> 0, name |-> "First Card"],
                         [index |-> 1, name |-> "Second Card"] >>

peekSelects(players, cardOptions) ==
    << Select("peek-player", "Choose player...",
              [i \in 1..Len(players) |-> playerOption(players[i])]),
       Select("peek-card", "Choose card...",
              [i \in 1..Len(cardOptions) |->
                  Option(toString(cardOptions[i].index), cardOptions[i].name)]) >>

createPeekInterface(data) ==
    Form(<< "Target Player:", "Card to Peek:" >>,
         peekSelects(OrDefault(data.availablePlayers, << >>),
                     OrDefault(data.cardOptions, DefaultCardOptions)),
         << >>, << >>, None)

DefaultRevealOptions == << [value |-> TRUE, name |-> "Reveal Suit"],
                           [value |-> FALSE, name |-> "Reveal Rank"] >>

\* one radio per option, the first one checked
burnRadios(options) ==
    [i \in 1..Len(options) |->
        [ value |-> boolString(options[i].value), text |-> options[i].name,
          checked |-> (i = 1) ]]

createBurnInterface(data) ==
    Form(<< "What to reveal:" >>, << >>,
         burnRadios(OrDefault(data.revealOptions, DefaultRevealOptions)),
         << >>, None)

\* a .card-selection-btn
cardButton(card, type) ==
    [ index |-> toString(card.index), card |-> card.card, type |-> type,
      selected |-> FALSE ]

\* a .card-selection-grid
Grid(id, cards, type) ==
    [ id |-> id, buttons |-> [i \in 1..Len(cards) |-> cardButton(cards[i], type)] ]

manifestButtons(cards) ==
    [ id |-> "",
      buttons |-> [i \in 1..Len(cards) |->
                      cardButton(cards[i], IF cards[i].isDrawnCard THEN "(New)"
                                           ELSE "(Current)")] ]

drawnCardInfo(drawnCard) ==
    IF drawnCard = None THEN << >>
    ELSE << "New card drawn: "
              \o (IF Get(drawnCard).Card = "" THEN "Unknown" ELSE Get(drawnCard).Card) >>

createManifestInterface(data) ==
    Form(<< "Choose card to discard:" >> \o drawnCardInfo(data.drawnCard),
         << >>, << >>,
         << manifestButtons(OrDefault(data.availableCards, << >>)) >>, None)

\* Array.prototype.join(', ')
RECURSIVE joinComma(_)
joinComma(names) ==
    IF names = << >> THEN ""
    ELSE IF Len(names) = 1 THEN names[1]
    ELSE names[1] \o ", " \o joinComma(Tail(names))

\* data.step || 1
stepOf(data) == IF data.step = None THEN 1 ELSE OrNumber(Get(data.step), 1)

retrieving(chosenBurnt) ==
    "Retrieving: " \o (IF chosenBurnt = None THEN "Unknown" ELSE Get(chosenBurnt).card)

createTrashmanInterface(data) ==
    IF stepOf(data) = 1
    THEN Form(<< "Current hole cards: "
                   \o joinComma(OrDefault(data.currentHoleCards, << >>)),
                 "Choose burnt card to retrieve:" >>,
              << >>, << >>,
              << Grid("", OrDefault(data.availableBurntCards, << >>), "(Burnt)") >>,
              None)
    ELSE Form(<< retrieving(data.chosenBurntCard), "Choose hole card to discard:" >>,
              << >>, << >>,
              << Grid("", OrDefault(data.availableHoleCards, << >>), "(Current)") >>,
              None)

createYoinkInterface(data) ==
    Form(<< "Your hole cards (choose one):", "Board cards (choose one):" >>,
         << >>, << >>,
         << Grid("yoink-hole-grid", OrDefault(data.availableHoleCards, << >>),
                 "(Your card)"),
            Grid("yoink-board-grid", OrDefault(data.availableBoardCards, << >>),
                 "(Board card)") >>,
         None)

\* the payload dumped as JSON (kept as the payload itself)
createGenericInterface(data) ==
    Form(<< "Ability data received but no specific interface available." >>,
         << >>, << >>, << >>, Some(data))

\* the switch of showAbilitySelection on the lower-cased tag
createInterface(ability, data) ==
    CASE ability = "peek"     -> createPeekInterface(data)
      [] ability = "burn"     -> createBurnInterface(data)
      [] ability = "manifest" -> createManifestInterface(data)
      [] ability = "trashman" -> createTrashmanInterface(data)
      [] ability = "yoink"    -> createYoinkInterface(data)
      [] OTHER                -> createGenericInterface(data)

\* titles[ability]
titles(ability, step) ==
    CASE ability = "peek"     -> Some("Peek Ability")
      [] ability = "burn"     -> Some("Burn Ability")
      [] ability = "manifest" -> Some("Manifest Ability")
      [] ability = "trashman" ->
            Some("Trashman Ability"
                   \o (IF step # None /\ Get(step) # 0
                       THEN " - Step " \o Join(toString(Get(step))) ELSE ""))
      [] ability = "deadman"  -> Some("Deadman Ability")
      [] ability = "chaos"    -> Some("Chaos Ability")
      [] ability = "yoink"    -> Some("Yoink Ability")
      [] OTHER                -> None

titleOr(found, ability) ==
    [title |-> IF found = None THEN ability \o " Ability" ELSE Get(found)]

\* getAbilityTitle(data): a TypeError when data is null (data.abilityUsed)
getAbilityTitle(data) ==
    IF data = None THEN TypeError
    ELSE titleOr(titles(Join(toLowerCase(Get(data).abilityUsed)), Get(data).step),
                 Join(toLowerCase(Get(data).abilityUsed)))

\* data.message || data.instructions || 'Make your selection'
promptMessage(data) ==
    IF TruthyStr(data.message) THEN Get(data.message)
    ELSE IF TruthyStr(data.instructions) THEN Get(data.instructions)
    ELSE "Make your selection"

\* the dialog after showAbilitySelection(data)
rendered(form, title, message) ==
    [ title |-> title, message |-> message, labels |-> form.labels,
      selects |-> form.selects, radios |-> form.radios, grids |-> form.grids,
      dump |-> form.dump ]

shownDialog(data) ==
    rendered(createInterface(Join(toLowerCase(data.abilityUsed)), data),
             getAbilityTitle(Some(data)).title, promptMessage(data))

----------------------------------------------------------------------------
(* Ability dialog: reading the form (getSelectionData) *)

\* document.getElementById(id)?.value
selectValue(selects, id) ==
    LET hits == { i \in 1..Len(selects) : selects[i].id = id }
    IN  IF hits = {} THEN None ELSE Some(selects[Min(hits)].value)

parseIntOf(value) == IF value = None THEN NaN ELSE parseInt(Get(value))

peekSelection(playerId, cardIndex) ==
    IF playerId = None \/ Get(playerId) = << >> \/ cardIndex = Some(<< >>)
    THEN None
    ELSE Some([ targetPlayerId |-> parseIntOf(playerId),
                cardIndex |-> parseIntOf(cardIndex) ])

getPeekSelection(dialog) ==
    peekSelection(selectValue(dialog.selects, "peek-player"),
                  selectValue(dialog.selects, "peek-card"))

\* querySelector(...): the first element of the list that matches
firstWhere(elements, hits) == find(elements, hits)

burnSelection(selected) ==
    IF selected = None THEN None
    ELSE Some([revealSuit |-> (Get(selected).value = "true")])

getBurnSelection(dialog) ==
    burnSelection(firstWhere(dialog.radios,
                    { i \in 1..Len(dialog.radios) : dialog.radios[i].checked }))

\* all .card-selection-btn of the document, in document order
RECURSIVE allButtons(_)
allButtons(grids) ==
    IF grids = << >> THEN << >> ELSE Head(grids).buttons \o allButtons(Tail(grids))

selectedIn(buttons) ==
    firstWhere(buttons, { i \in 1..Len(buttons) : buttons[i].selected })

\* querySelector('#<id> .card-selection-btn.selected')
selectedInGrid(grids, id) ==
    LET hits == { i \in 1..Len(grids) : grids[i].id = id }
    IN  IF hits = {} THEN None ELSE selectedIn(grids[Min(hits)].buttons)

manifestSelection(selected, drawnCard) ==
    IF selected = None THEN None
    ELSE Some([ discardIndex |-> parseInt(Get(selected).index),
                drawnCard |-> IF drawnCard = None THEN None
                              ELSE Some(Get(drawnCard).Rank),
                drawnCardSuit |-> IF drawnCard = None THEN None
                                  ELSE Some(Get(drawnCard).Suit) ])

getManifestSelection(dialog, choices) ==
    manifestSelection(selectedIn(allButtons(dialog.grids)), choices.drawnCard)

\* this.currentChoices.chosenBurntCard?.index || 0
echoedIndex(chosenBurntCard) ==
    IF chosenBurntCard = None THEN 0 ELSE OrNumber(Get(chosenBurntCard).index, 0)

trashmanSelection_usesSelected(selected, choices) ==
    IF selected = None THEN None
    ELSE IF stepOf(choices) = 1
    THEN Some([burntCardIndex |-> parseInt(Get(selected).index)])
    ELSE Some([ burntCardIndex |-> parseInt(Get(selected).index),
                holeCardIndex |-> parseInt(Get(selected).index) ])

trashmanSelection(selected, choices) ==
    IF selected = None THEN None
    ELSE IF stepOf(choices) = 1
    THEN Some([burntCardIndex |-> parseInt(Get(selected).index)])
    ELSE Some([ burntCardIndex |-> echoedIndex(choices.chosenBurntCard),
                holeCardIndex |-> parseInt(Get(selected).index) ])

getTrashmanSelection(dialog, choices) ==
    trashmanSelection(selectedIn(allButtons(dialog.grids)), choices)

yoinkSelection_swapped(holeSelected, boardSelected) ==
    IF holeSelected = None \/ boardSelected = None THEN None
    ELSE Some([ cardIndex |-> parseInt(Get(boardSelected).index),
                targetPlayerId |-> parseInt(Get(holeSelected).index) ])

yoinkSelection(holeSelected, boardSelected) ==
    IF holeSelected = None \/ boardSelected = None THEN None
    ELSE Some([ cardIndex |-> parseInt(Get(holeSelected).index),
                targetPlayerId |-> parseInt(Get(boardSelected).index) ])

getYoinkSelection(dialog) ==
    yoinkSelection(selectedInGrid(dialog.grids, "yoink-hole-grid"),
                   selectedInGrid(dialog.grids, "yoink-board-grid"))

\* the switch of getSelectionData on the lower-cased tag
selectionFor(ability, dialog, choices) ==
    CASE ability = "peek"     -> getPeekSelection(dialog)
      [] ability = "burn"     -> getBurnSelection(dialog)
      [] ability = "manifest" -> getManifestSelection(dialog, choices)
      [] ability = "trashman" -> getTrashmanSelection(dialog, choices)
      [] ability = "yoink"    -> getYoinkSelection(dialog)
      [] OTHER                -> None

getSelectionData(ability, dialog, choices) ==
    selectionFor(Join(toLowerCase(ability)), dialog, choices)

----------------------------------------------------------------------------
(* Ability dialog: the handlers *)

\* the user clicks while at most MaxLog entries are logged and the server keeps up
Attentive == Len(actionLog) <= MaxLog /\ Len(sent) < MaxInFlight

hideSelectionWindow_keepsTag ==
    /\ overlayHidden' = TRUE
    /\ currentAbility' = currentAbility
    /\ currentChoices' = None

\* hideSelectionWindow(): class 'hidden', and both fields null
hideSelectionWindow ==
    /\ overlayHidden' = TRUE
    /\ currentAbility' = None
    /\ currentChoices' = None

showAbilitySelection_keepsForm(data) ==
    /\ currentAbility' = Some(data.abilityUsed)
    /\ currentChoices' = Some(data)
    /\ content' = IF overlayHidden THEN shownDialog(data) ELSE content
    /\ overlayHidden' = FALSE
    /\ actionLog' = addActionLog(actionLog,
                                 shownDialog(data).title \o " - " \o promptMessage(data),
                                 "system")

showAbilitySelection(data) ==
    /\ currentAbility' = Some(data.abilityUsed)
    /\ currentChoices' = Some(data)
    /\ content' = shownDialog(data)
    /\ overlayHidden' = FALSE
    /\ actionLog' = addActionLog(actionLog,
                                 content'.title \o " - " \o content'.message,
                                 "system")

\* socket.on('ability_choice_required'): handleAbilityChoiceRequired(data)
ability_choice_required(data) ==
    /\ OnGamePage
    /\ Quiet
    /\ showAbilitySelection(data)
    /\ lastEvent' = Event("ability_choice_required", data)
    /\ UNCHANGED lobbyVars
    /\ UNCHANGED <<joinVars, viewVars, sent>>

AbilityErrors == {"Not your turn"}

ability_error(data) ==
    /\ OnGamePage
    /\ Quiet
    /\ actionLog' = addActionLog(actionLog, "Ability error: " \o data.error, "system")
    /\ lastEvent' = Event("ability_error", data)
    /\ UNCHANGED lobbyVars
    /\ UNCHANGED <<joinVars, viewVars, abilityVars, sent>>

CancelMessages == {"Ability cancelled by server"}

ability_cancelled(data) ==
    /\ OnGamePage
    /\ Quiet
    /\ actionLog' = addActionLog(actionLog, data.message, "system")
    /\ lastEvent' = Event("ability_cancelled", data)
    /\ UNCHANGED lobbyVars
    /\ UNCHANGED <<joinVars, viewVars, abilityVars, sent>>

\* The user operates the form controls while the dialog is shown.  (A hidden
\* form is not read by any handler, the guard of confirmSelection returning
\* first, and is rebuilt by the next showAbilitySelection.)
\* the user picks option o of <select> s
selectChange(s, o) ==
    /\ OnGamePage
    /\ ~overlayHidden
    /\ s \in 1..Len(content.selects)
    /\ o \in 1..Len(content.selects[s].options)
    /\ content' = [content EXCEPT
                     !.selects[s].value = content.selects[s].options[o].value]
    /\ lastEvent' = Event("selectChange", [select |-> s, option |-> o])
    /\ UNCHANGED lobbyVars
    /\ UNCHANGED <<joinVars, viewVars, sent, actionLog, currentAbility,
                   currentChoices, overlayHidden>>

\* the user clicks radio r of the group burn-choice
radioClick(r) ==
    /\ OnGamePage
    /\ ~overlayHidden
    /\ r \in 1..Len(content.radios)
    /\ content' = [content EXCEPT
                     !.radios = [i \in 1..Len(content.radios) |->
                                    [content.radios[i] EXCEPT !.checked = (i = r)]]]
    /\ lastEvent' = Event("radioClick", [radio |-> r])
    /\ UNCHANGED lobbyVars
    /\ UNCHANGED <<joinVars, viewVars, sent, actionLog, currentAbility,
                   currentChoices, overlayHidden>>

deselect(grid) ==
    [grid EXCEPT !.buttons = [i \in 1..Len(grid.buttons) |->
                                 [grid.buttons[i] EXCEPT !.selected = FALSE]]]

addSelected(grids, g, b) == [grids EXCEPT ![g].buttons[b].selected = TRUE]

\* the click listener of bindCardSelection on button b of grid g
cardSelection(grids, g, b) ==
    addSelected(IF grids[g].id = "yoink-hole-grid" \/ grids[g].id = "yoink-board-grid"
                THEN [grids EXCEPT ![g] = deselect(grids[g])]
                ELSE [i \in 1..Len(grids) |-> deselect(grids[i])],
                g, b)

cardClick(g, b) ==
    /\ OnGamePage
    /\ ~overlayHidden
    /\ g \in 1..Len(content.grids)
    /\ b \in 1..Len(content.grids[g].buttons)
    /\ content' = [content EXCEPT !.grids = cardSelection(content.grids, g, b)]
    /\ lastEvent' = Event("cardClick", [grid |-> g, button |-> b])
    /\ UNCHANGED lobbyVars
    /\ UNCHANGED <<joinVars, viewVars, sent, actionLog, currentAbility,
                   currentChoices, overlayHidden>>

\* the last line of confirmSelection: nothing is logged when the title throws
confirmedLog(log, title) ==
    IF title = TypeError THEN log
    ELSE addActionLog(log, title.title \o " - Selection confirmed", "player-action")

confirmed_closesWithoutSelection(selection) ==
    IF selection = None
    THEN /\ actionLog' = addActionLog(actionLog,
                             "Please make a selection before confirming", "system")
         /\ lastEvent' = Event("confirmSelection", [threw |-> FALSE])
         /\ hideSelectionWindow
         /\ UNCHANGED <<sent, content>>
    ELSE /\ sent' = Append(sent, Get(selection)
                                   @@ [ type |-> "use_ability",
                                        gameId |-> Get(gameId),
                                        ability |-> Get(currentAbility) ])
         /\ hideSelectionWindow
         /\ actionLog' = confirmedLog(actionLog, getAbilityTitle(currentChoices'))
         /\ lastEvent' = Event("confirmSelection",
                               [threw |-> getAbilityTitle(currentChoices') = TypeError])
         /\ UNCHANGED content

\* confirmSelection from getSelectionData on
confirmed(selection) ==
    IF selection = None
    THEN /\ actionLog' = addActionLog(actionLog,
                             "Please make a selection before confirming", "system")
         /\ lastEvent' = Event("confirmSelection", [threw |-> FALSE])
         /\ UNCHANGED <<sent, abilityVars>>
    ELSE /\ sent' = Append(sent, Get(selection)
                                   @@ [ type |-> "use_ability",
                                        gameId |-> Get(gameId),
                                        ability |-> Get(currentAbility) ])
         /\ hideSelectionWindow
         /\ actionLog' = confirmedLog(actionLog, getAbilityTitle(currentChoices'))
         /\ lastEvent' = Event("confirmSelection",
                               [threw |-> getAbilityTitle(currentChoices') = TypeError])
         /\ UNCHANGED content

\* click on #ability-confirm-btn
confirmSelection ==
    /\ OnGamePage
    /\ Attentive
    /\ IF currentAbility = None \/ Get(currentAbility) = << >> \/ currentChoices = None
       THEN /\ lastEvent' = Event("confirmSelection", [threw |-> FALSE])
            /\ UNCHANGED <<sent, actionLog, abilityVars>>
       ELSE confirmed(getSelectionData(Get(currentAbility), content,
                                       Get(currentChoices)))
    /\ UNCHANGED lobbyVars
    /\ UNCHANGED <<joinVars, viewVars>>

\* click on #ability-cancel-btn
cancelAbility ==
    /\ OnGamePage
    /\ Attentive
    /\ sent' = Append(sent, [type |-> "cancel_ability", gameId |-> Get(gameId)])
    /\ hideSelectionWindow
    /\ actionLog' = addActionLog(actionLog, "Ability cancelled", "system")
    /\ lastEvent' = Event("cancelAbility", NoData)
    /\ UNCHANGED lobbyVars
    /\ UNCHANGED <<joinVars, viewVars, content>>

closeClick_cancels ==
    /\ OnGamePage
    /\ Attentive
    /\ sent' = Append(sent, [type |-> "cancel_ability", gameId |-> Get(gameId)])
    /\ hideSelectionWindow
    /\ lastEvent' = Event("closeClick", NoData)
    /\ UNCHANGED lobbyVars
    /\ UNCHANGED <<joinVars, viewVars, actionLog, content>>

\* click on #ability-selection-close
closeClick ==
    /\ OnGamePage
    /\ hideSelectionWindow
    /\ lastEvent' = Event("closeClick", NoData)
    /\ UNCHANGED lobbyVars
    /\ UNCHANGED <<joinVars, viewVars, sent, actionLog, content>>

\* click on the overlay outside the window
outsideClick ==
    /\ OnGamePage
    /\ hideSelectionWindow
    /\ lastEvent' = Event("outsideClick", NoData)
    /\ UNCHANGED lobbyVars
    /\ UNCHANGED <<joinVars, viewVars, sent, actionLog, content>>

NextAbility ==
    \/ PokerClient
    \/ \E g \in GameIds, t \in Tokens :
           transition_to_game([gameId |-> g, playerToken |-> t])
    \/ GameRoomClient(location.gameId)
    \/ ServerReceive
    \/ \E data \in Prompts : ability_choice_required(data)
    \/ \E e \in AbilityErrors : ability_error([error |-> e])
    \/ \E m \in CancelMessages : ability_cancelled([message |-> m])
    \/ \E s \in 1..Len(content.selects) :
         \E o \in 1..Len(content.selects[s].options) : selectChange(s, o)
    \/ \E r \in 1..Len(content.radios) : radioClick(r)
    \/ \E g \in 1..Len(content.grids) :
         \E b \in 1..Len(content.grids[g].buttons) : cardClick(g, b)
    \/ confirmSelection
    \/ cancelAbility
    \/ closeClick
    \/ outsideClick

SpecAbility == Init /\ [][NextAbility]_vars

----------------------------------------------------------------------------
(* Claims on the ability dialog (checked under SpecAbility) *)

\* a prompt is held and its dialog is open
PromptOpen == ~overlayHidden /\ currentAbility # None /\ currentChoices # None

\* the form is as showAbilitySelection rendered it: the user has set nothing
Untouched == content = shownDialog(Get(currentChoices))

Closed == overlayHidden /\ currentAbility = None /\ currentChoices = None

Notice == "Please make a selection before confirming"

\* the step logged the notice and changed nothing else of the dialog
NoticeOnly ==
    /\ sent' = sent
    /\ actionLog' = Append(actionLog, [message |-> Notice, type |-> "system"])
    /\ ~overlayHidden'
    /\ UNCHANGED <<currentAbility, currentChoices, content>>

TagOf(data) == Join(toLowerCase(data.abilityUsed))

UseAbility(data, fields) ==
    fields @@ [type |-> "use_ability", gameId |-> Get(gameId),
               ability |-> data.abilityUsed]

\* C6 (as stated): for every ability tag, a confirm on a prompt whose form the
\* user has not touched emits nothing, logs the notice and leaves the dialog
\* open with the held tag, payload and form unchanged.
C6_UntouchedConfirmEmitsNothing ==
    [][ (Step("confirmSelection") /\ PromptOpen /\ Untouched) => NoticeOnly ]_vars

\* the burn form renders its first option already checked
PreChecked(data) ==
    TagOf(data) = "burn" /\ OrDefault(data.revealOptions, DefaultRevealOptions) # << >>

\* C6 (amended): a confirm on an untouched prompt emits nothing, logs the
\* notice and leaves dialog, tag, payload and form unchanged for every tag
\* except a burn prompt with a non-empty option list; there the first option is
\* pre-checked, and the confirm emits one use_ability carrying that option and
\* closes the dialog.
C6_UntouchedConfirmExceptBurn ==
    [][ (Step("confirmSelection") /\ PromptOpen /\ Untouched) =>
          IF PreChecked(Get(currentChoices))
          THEN /\ sent' = Append(sent,
                     UseAbility(Get(currentChoices),
                        [revealSuit |->
                            OrDefault(Get(currentChoices).revealOptions,
                                      DefaultRevealOptions)[1].value]))
               /\ overlayHidden'
          ELSE NoticeOnly ]_vars

\* an untouched yoink prompt was confirmed: notice logged, dialog still open
C6_Witness ==
    /\ lastEvent.name = "confirmSelection"
    /\ PromptOpen
    /\ currentChoices = Some(PromptYoink)
    /\ Untouched
    /\ Last(actionLog).message = Notice

SelectedPos(buttons) == CHOOSE b \in 1..Len(buttons) : buttons[b].selected
HasSelected(buttons) == \E b \in 1..Len(buttons) : buttons[b].selected
\* position, among the payload's entries, of the option a <select> shows
ChosenPos(select) ==
    (CHOOSE o \in 1..Len(select.options) : select.options[o].value = select.value) - 1
CheckedPos(radios) == CHOOSE r \in 1..Len(radios) : radios[r].checked

\* every field the tag requires has been set in the form
ValidSelection(tag, dialog) ==
    CASE tag = "peek"  -> ChosenPos(dialog.selects[1]) > 0 /\ ChosenPos(dialog.selects[2]) > 0
      [] tag = "burn"  -> \E r \in 1..Len(dialog.radios) : dialog.radios[r].checked
      [] tag \in {"manifest", "trashman"} -> HasSelected(dialog.grids[1].buttons)
      [] tag = "yoink" -> HasSelected(dialog.grids[1].buttons)
                            /\ HasSelected(dialog.grids[2].buttons)
      [] OTHER -> FALSE

\* the tag-specific fields, in terms of the payload entry the user picked
ExpectedFields(tag, data, dialog) ==
    CASE tag = "peek" ->
           [ targetPlayerId |->
                 Get(data.availablePlayers)[ChosenPos(dialog.selects[1])].id,
             cardIndex |->
                 OrDefault(data.cardOptions, DefaultCardOptions)
                     [ChosenPos(dialog.selects[2])].index ]
      [] tag = "burn" ->
           [ revealSuit |-> OrDefault(data.revealOptions, DefaultRevealOptions)
                                [CheckedPos(dialog.radios)].value ]
      [] tag = "manifest" ->
           [ discardIndex |->
                 Get(data.availableCards)[SelectedPos(dialog.grids[1].buttons)].index,
             drawnCard |-> Some(Get(data.drawnCard).Rank),
             drawnCardSuit |-> Some(Get(data.drawnCard).Suit) ]
      [] tag = "trashman" /\ data.step = None ->
           [ burntCardIndex |->
                 Get(data.availableBurntCards)
                     [SelectedPos(dialog.grids[1].buttons)].index ]
      [] tag = "trashman" /\ data.step = Some(2) ->
           [ burntCardIndex |-> Get(data.chosenBurntCard).index,
             holeCardIndex |->
                 Get(data.availableHoleCards)
                     [SelectedPos(dialog.grids[1].buttons)].index ]
      [] tag = "yoink" ->
           [ cardIndex |->
                 Get(data.availableHoleCards)
                     [SelectedPos(dialog.grids[1].buttons)].index,
             targetPlayerId |->
                 Get(data.availableBoardCards)
                     [SelectedPos(dialog.grids[2].buttons)].index ]

\* C7: a confirm on a held prompt with a valid selection emits exactly one
\* use_ability carrying gameId, the prompt's tag and the tag's fields as the
\* user picked them, and leaves the dialog closed and idle; any other confirm
\* (no prompt held, or selection incomplete) emits nothing.
C7_ConfirmEmitsOnePerTag ==
    [][ Step("confirmSelection") =>
          IF currentAbility # None /\ currentChoices # None
               /\ ValidSelection(TagOf(Get(currentChoices)), content)
          THEN /\ sent' = Append(sent,
                     UseAbility(Get(currentChoices),
                                ExpectedFields(TagOf(Get(currentChoices)),
                                               Get(currentChoices), content)))
               /\ Closed'
          ELSE sent' = sent ]_vars

\* the yoink selection (hole card 1, board card 2) has just been sent
C7_Witness ==
    /\ lastEvent.name = "confirmSelection"
    /\ Closed
    /\ sent # << >>
    /\ Last(sent) = [ type |-> "use_ability", gameId |-> "g1", ability |-> TagYoink,
                      cardIndex |-> 1, targetPlayerId |-> 2 ]

\* C8: the use_ability of a step-2 trashman prompt carries as burntCardIndex
\* the index of that prompt's chosenBurntCard; the prompt state is the arriving
\* payload and nothing else, and it is cleared by every confirm that emits.
C8_Step2EchoesBurntIndex ==
    /\ [][ (Step("confirmSelection") /\ Len(sent') > Len(sent)
              /\ TagOf(Get(currentChoices)) = "trashman") =>
             /\ Closed'
             /\ (Get(currentChoices).step = Some(2)) =>
                   /\ Last(sent').burntCardIndex
                        = Get(Get(currentChoices).chosenBurntCard).index
                   /\ DOMAIN Last(sent') = {"type", "gameId", "ability",
                                            "burntCardIndex", "holeCardIndex"} ]_vars
    /\ [][ Step("ability_choice_required") =>
             currentChoices' = Some(lastEvent'.data) ]_vars

\* step 1 sent burnt card 1, the server echoed 3, step 2 sent 3
C8_Witness ==
    /\ lastEvent.name = "confirmSelection"
    /\ Len(sent) = 2
    /\ sent[1] = [ type |-> "use_ability", gameId |-> "g1", ability |-> TagTrashman,
                   burntCardIndex |-> 1 ]
    /\ sent[2] = [ type |-> "use_ability", gameId |-> "g1", ability |-> TagTrashman,
                   burntCardIndex |-> 3, holeCardIndex |-> 0 ]

\* C9: cancel emits exactly one cancel_ability{gameId} and closes the dialog;
\* the close control and an outside click reach the same closed, idle dialog
\* and emit nothing.
C9_CancelEmitsDismissDoesNot ==
    /\ [][ Step("cancelAbility") =>
             /\ sent' = Append(sent, [type |-> "cancel_ability",
                                      gameId |-> Get(gameId)])
             /\ Closed' ]_vars
    /\ [][ (Step("closeClick") \/ Step("outsideClick")) =>
             /\ sent' = sent
             /\ Closed' ]_vars

\* an open peek prompt was cancelled
C9_Witness ==
    /\ lastEvent.name = "cancelAbility"
    /\ Closed
    /\ content = shownDialog(PromptPeek)
    /\ sent # << >>
    /\ Last(sent) = [type |-> "cancel_ability", gameId |-> "g1"]
    /\ Last(actionLog).message = "Ability cancelled"

\* C10: at most one prompt is held.  An arriving ability_choice_required
\* replaces tag, payload and form by those of the new payload, whatever was
\* held; the held prompt otherwise only changes by being dropped, through
\* confirm, cancel, close or an outside click; an emitting confirm carries the
\* tag of the held, i.e. the most recent, prompt.
C10_NewPromptReplacesOld ==
    /\ [][ Step("ability_choice_required") =>
             /\ currentAbility' = Some(lastEvent'.data.abilityUsed)
             /\ currentChoices' = Some(lastEvent'.data)
             /\ content' = shownDialog(lastEvent'.data)
             /\ ~overlayHidden' ]_vars
    /\ [][ (currentChoices' # currentChoices /\ ~Step("ability_choice_required")) =>
             /\ Closed'
             /\ Step("confirmSelection") \/ Step("cancelAbility")
                  \/ Step("closeClick") \/ Step("outsideClick") ]_vars
    /\ [][ (Step("confirmSelection") /\ Len(sent') > Len(sent)) =>
             Last(sent').ability = Get(currentChoices).abilityUsed ]_vars
    /\ [](currentAbility # None =>
             /\ currentChoices # None
             /\ Get(currentAbility) = Get(currentChoices).abilityUsed)

\* a peek prompt, then a burn prompt, then a confirm: only burn was sent
C10_Witness ==
    /\ lastEvent.name = "confirmSelection"
    /\ Len(actionLog) = 3
    /\ actionLog[2].message = "Peek Ability - Make your selection"
    /\ actionLog[3].message = "Burn Ability - Burn: choose"
    /\ sent = << [ type |-> "use_ability", gameId |-> "g1", ability |-> TypeBurn,
                   revealSuit |-> TRUE ] >>

----------------------------------------------------------------------------
(* Lobby controller (PokerClient): lobby snapshots *)

\* this.socket.id of this client
MySocketId == "sid-me"

Player(name, socketId, host, ready) ==
    [username |-> name, socketId |-> socketId, isHost |-> host, isReady |-> ready]

Me(host, ready) == Player("Ann", MySocketId, host, ready)
Bob(host, ready) == Player("Bob", "sid-bob", host, ready)
Cy(host, ready) == Player("Cy", "sid-cy", host, ready)

Config(sb, bb, funds, maxp) ==
    [smallBlind |-> sb, bigBlind |-> bb, startingFunds |-> funds, maxPlayers |-> maxp]

Lobby(code, config, players) ==
    [code |-> code, name |-> "Ann's Table", config |-> config, players |-> players]

ConfigA == Config(5, 10, 1000, 8)
ConfigB == Config(10, 20, 200, 8)

\* seat lists: alone, with a second and a third player, and as guest
PlayerLists ==
    { << Me(TRUE, r) >> : r \in BOOLEAN }
      \cup { << Me(TRUE, TRUE), Bob(FALSE, r) >> : r \in BOOLEAN }
      \cup { << Me(TRUE, TRUE), Bob(FALSE, TRUE), Cy(FALSE, r) >> : r \in BOOLEAN }
      \cup { << Bob(TRUE, TRUE), Me(FALSE, r) >> : r \in BOOLEAN }

\* snapshots carried by the seat events, and by a change of settings
SeatSnapshots == { Lobby("ABCDEF", ConfigA, ps) : ps \in PlayerLists }

ConfigSnapshots ==
    { Lobby("ABCDEF", ConfigB, << Me(TRUE, TRUE), Bob(FALSE, r) >>) : r \in BOOLEAN }

\* the creator is alone in a new lobby; a joiner finds the host seated
CreatedSnapshots == { l \in SeatSnapshots : Len(l.players) = 1 }

JoinedSnapshots == { l \in SeatSnapshots : l.players[1].socketId # MySocketId }

----------------------------------------------------------------------------
(* Lobby controller: the lobby-room display *)

updateLobbyDisplay_keepsCode(lobby, v) ==
    IF lobby = None THEN v
    ELSE [v EXCEPT !.title = Some(Get(lobby).name),
                   !.maxPlayerCount = Some(Get(lobby).config.maxPlayers)]

\* updateLobbyDisplay(): title, code and seat limit
updateLobbyDisplay(lobby, v) ==
    IF lobby = None THEN v
    ELSE [v EXCEPT !.title = Some(Get(lobby).name),
                   !.codeText = Some(Get(lobby).code),
                   !.maxPlayerCount = Some(Get(lobby).config.maxPlayers)]

playerClasses(player) ==
    {"player-item"} \cup (IF player.isHost THEN {"host"} ELSE {})
                    \cup (IF player.isReady THEN {"ready"} ELSE {})

playerStatusText(player) ==
    IF player.isHost
    THEN (IF player.isReady THEN "HOST (READY)" ELSE "HOST (NOT READY)")
    ELSE (IF player.isReady THEN "READY" ELSE "NOT READY")

playerEl(player) ==
    [ classes |-> playerClasses(player), name |-> player.username,
      status |-> playerStatusText(player) ]

\* updateReadyButton(): label and style of #toggle-ready-btn
updateReadyButton(ready) ==
    IF ready THEN Some([text |-> "Not Ready", cls |-> "btn-primary"])
    ELSE Some([text |-> "Ready Up", cls |-> "btn-secondary"])

\* positions of this client's own entries in the seat list
ownEntries(players) == { i \in 1..Len(players) : players[i].socketId = MySocketId }

Max(S) == CHOOSE x \in S : \A y \in S : x >= y

\* this.isReady after the forEach of updatePlayersDisplay: the flag of the last
\* own entry, unchanged when there is none
mirroredReady(players, own, ready) ==
    IF own = {} THEN ready ELSE players[Max(own)].isReady

playersShown(players, own, v) ==
    [v EXCEPT !.playerCount = Some(Len(players)),
              !.playersList = Some([i \in 1..Len(players) |-> playerEl(players[i])]),
              !.readyButton = IF own = {} THEN v.readyButton
                              ELSE updateReadyButton(players[Max(own)].isReady)]

\* updatePlayersDisplay(): the view and the isReady mirror it leaves
updatePlayersDisplay(lobby, ready, v) ==
    IF lobby = None THEN [view |-> v, isReady |-> ready]
    ELSE [ view |-> playersShown(Get(lobby).players,
                                 ownEntries(Get(lobby).players), v),
           isReady |-> mirroredReady(Get(lobby).players,
                                     ownEntries(Get(lobby).players), ready) ]

updateSettingsDisplay(lobby, v) ==
    IF lobby = None THEN v
    ELSE [v EXCEPT !.displaySmallBlind = Some(Get(lobby).config.smallBlind),
                   !.displayBigBlind = Some(Get(lobby).config.bigBlind),
                   !.displayStartingFunds = Some(Get(lobby).config.startingFunds)]

\* updateHostControls(): #edit-settings-btn and #start-game-btn shown to the host
updateHostControls(host, v) ==
    [v EXCEPT !.hostControlsDisplay = Some(IF host THEN "inline-block" ELSE "none")]

canStart_someoneReady(players) ==
    Len(players) >= 2 /\ \E i \in 1..Len(players) : players[i].isReady

\* "Need at least 2 players and all must be ready (including host)"
canStart(players) ==
    Len(players) >= 2 /\ \A i \in 1..Len(players) : players[i].isReady

startButtonFor(players) ==
    [ disabled |-> ~canStart(players),
      text |-> IF canStart(players) THEN "Start Game"
               ELSE IF Len(players) < 2 THEN "Need More Players"
               ELSE "Waiting for Players" ]

\* updateStartButton(): nothing is touched unless this client is host of a lobby
updateStartButton(host, lobby, v) ==
    IF ~host \/ lobby = None THEN v
    ELSE [v EXCEPT !.startButton = Some(startButtonFor(Get(lobby).players))]

----------------------------------------------------------------------------
(* Lobby controller: inbound events *)

RoomScreen   == "lobby-room-screen"
MenuScreen   == "lobby-menu-screen"
CreateScreen == "create-lobby-screen"
JoinScreen   == "join-lobby-screen"
NameScreen   == "username-screen"

\* the other state of the page, which no lobby handler touches
gameVars == <<location, loaded, localStorage, issuedToken, socket, gameId,
              connectionStatus, actionLog, gameState, view, currentAbility,
              currentChoices, overlayHidden, content>>

\* showError(elementId, message): text, class 'show', and a timeout of 5 seconds
showError(slots, elementId, message) ==
    [slots EXCEPT ![elementId] = [text |-> message, show |-> TRUE]]

\* hideError(elementId)
hideError(slots, elementId) == [slots EXCEPT ![elementId].show = FALSE]

\* pending timeouts are kept within this number
MaxTimers == 1

\* the views written by showLobbyRoom after showScreen, in its order
lobbyRoomView(lobby, host, ready, v) ==
    updateStartButton(host, lobby,
        updateHostControls(host,
            updateSettingsDisplay(lobby,
                updatePlayersDisplay(lobby, ready,
                                     updateLobbyDisplay(lobby, v)).view)))

\* showLobbyRoom() with the fields just set by the handler
showLobbyRoom(lobby, host) ==
    /\ screen' = showScreen(RoomScreen)
    /\ lobbyView' = lobbyRoomView(lobby, host, isReady, lobbyView)
    /\ isReady' = updatePlayersDisplay(lobby, isReady, lobbyView).isReady

username_set(data) ==
    /\ OnLobbyPage
    /\ username' = data.username
    /\ screen' = showScreen(MenuScreen)
    /\ lobbyView' = [lobbyView EXCEPT !.playerUsername = Some(data.username)]
    /\ lastEvent' = Event("username_set", data)
    /\ UNCHANGED <<gameVars, sent, currentLobby, isHost, isReady, errors, timers>>

ServerErrors == {"Rejected by server"}

username_error(data) ==
    /\ OnLobbyPage
    /\ Len(timers) < MaxTimers
    /\ errors' = showError(errors, "username-error", data.error)
    /\ timers' = Append(timers, "username-error")
    /\ lastEvent' = Event("username_error", data)
    /\ UNCHANGED <<gameVars, sent, username, currentLobby, isHost, isReady, screen,
                   lobbyView>>

lobby_created(data) ==
    /\ OnLobbyPage
    /\ currentLobby' = Some(data.lobby)
    /\ isHost' = TRUE
    /\ showLobbyRoom(Some(data.lobby), TRUE)
    /\ lastEvent' = Event("lobby_created", data)
    /\ UNCHANGED <<gameVars, sent, username, errors, timers>>

lobby_joined(data) ==
    /\ OnLobbyPage
    /\ currentLobby' = Some(data.lobby)
    /\ isHost' = FALSE
    /\ username' = data.assignedUsername
    /\ showLobbyRoom(Some(data.lobby), FALSE)
    /\ lastEvent' = Event("lobby_joined", data)
    /\ UNCHANGED <<gameVars, sent, errors, timers>>

\* the slots of the screens that are active, each shown with its own timeout
activeErrorSlots_both(active) == << "create-lobby-error", "join-lobby-error" >>

\* the slots lobby_error writes to: those of the screens carrying class 'active'
activeErrorSlots(active) ==
    (IF active = Some(CreateScreen) THEN << "create-lobby-error" >> ELSE << >>)
      \o (IF active = Some(JoinScreen) THEN << "join-lobby-error" >> ELSE << >>)

RECURSIVE showErrors(_, _, _)
showErrors(slots, ids, message) ==
    IF ids = << >> THEN slots
    ELSE showErrors(showError(slots, Head(ids), message), Tail(ids), message)

lobby_error(data) ==
    /\ OnLobbyPage
    /\ Len(timers) < MaxTimers
    /\ errors' = showErrors(errors, activeErrorSlots(screen), data.error)
    /\ timers' = timers \o activeErrorSlots(screen)
    /\ lastEvent' = Event("lobby_error", data)
    /\ UNCHANGED <<gameVars, sent, username, currentLobby, isHost, isReady, screen,
                   lobbyView>>

\* player_joined, player_left and player_ready_changed run the same statements
seatsChanged(name, data) ==
    /\ OnLobbyPage
    /\ currentLobby' = Some(data.lobby)
    /\ lobbyView' = updateStartButton(isHost, Some(data.lobby),
                        updatePlayersDisplay(Some(data.lobby), isReady,
                                             lobbyView).view)
    /\ isReady' = updatePlayersDisplay(Some(data.lobby), isReady, lobbyView).isReady
    /\ lastEvent' = Event(name, data)
    /\ UNCHANGED <<gameVars, sent, username, isHost, screen, errors, timers>>

player_joined(data) == seatsChanged("player_joined", data)

player_left(data) == seatsChanged("player_left", data)

player_ready_changed(data) == seatsChanged("player_ready_changed", data)

lobby_config_updated(data) ==
    /\ OnLobbyPage
    /\ currentLobby' = Some(data.lobby)
    /\ lobbyView' = updateSettingsDisplay(Some(data.lobby), lobbyView)
    /\ lastEvent' = Event("lobby_config_updated", data)
    /\ UNCHANGED <<gameVars, sent, username, isHost, isReady, screen, errors,
                   timers>>

lobby_left(data) ==
    /\ OnLobbyPage
    /\ currentLobby' = None
    /\ isHost' = FALSE
    /\ isReady' = FALSE
    /\ screen' = showScreen(MenuScreen)
    /\ lastEvent' = Event("lobby_left", data)
    /\ UNCHANGED <<gameVars, sent, username, errors, timers, lobbyView>>

\* the callback of showError's setTimeout: the oldest pending one runs first,
\* all of them having the same delay
errorTimeout ==
    /\ OnLobbyPage
    /\ timers # << >>
    /\ errors' = hideError(errors, Head(timers))
    /\ timers' = Tail(timers)
    /\ lastEvent' = Event("errorTimeout", [slot |-> Head(timers)])
    /\ UNCHANGED <<gameVars, sent, username, currentLobby, isHost, isReady, screen,
                   lobbyView>>

----------------------------------------------------------------------------
(* Lobby controller: the user's commands *)

\* String.prototype.trim on a character sequence
RECURSIVE trimStart(_)
trimStart(cs) == IF cs # << >> /\ Head(cs) = " " THEN trimStart(Tail(cs)) ELSE cs

RECURSIVE trimEnd(_)
trimEnd(cs) ==
    IF cs # << >> /\ cs[Len(cs)] = " " THEN trimEnd(SubSeq(cs, 1, Len(cs) - 1)) ELSE cs

trim(cs) == trimEnd(trimStart(cs))

toUpperCase(cs) == [i \in 1..Len(cs) |-> toUpperChar(cs[i])]

\* /^[A-Z]+$/.test(cs)
onlyLetters(cs) ==
    cs # << >> /\ \A i \in 1..Len(cs) : \E k \in 1..Len(UpperAlpha) : UpperAlpha[k] = cs[i]

\* parseInt(text) || default
numberOr(text, default) ==
    IF text = << >> \/ ~IsDigit(Head(text)) THEN default
    ELSE OrNumber(parseInt(text), default)

\* the user has one command outstanding at a time
NoneOutstanding == sent = << >>

\* the outcome of setUsername's checks: an error message, or none
usernameProblem(name) ==
    IF name = << >> THEN Some("Username cannot be empty")
    ELSE IF Len(name) < 2 THEN Some("Username must be at least 2 characters")
    ELSE IF Len(name) > 20 THEN Some("Username must be less than 20 characters")
    ELSE None

\* a command's end: the error shown in its slot, or the message emitted
rejected(elementId, message) ==
    /\ errors' = showError(hideError(errors, elementId), elementId, message)
    /\ timers' = Append(timers, elementId)
    /\ UNCHANGED sent

emitted(elementId, message) ==
    /\ errors' = hideError(errors, elementId)
    /\ sent' = Append(sent, message)
    /\ UNCHANGED timers

\* click on #set-username-btn, the input holding `value`
setUsername(value) ==
    /\ OnLobbyPage /\ screen = Some(NameScreen)
    /\ NoneOutstanding /\ Len(timers) < MaxTimers
    /\ IF usernameProblem(trim(value)) # None
       THEN rejected("username-error", Get(usernameProblem(trim(value))))
       ELSE emitted("username-error",
                    [type |-> "set_username", username |-> trim(value)])
    /\ lastEvent' = Event("setUsername", [value |-> value])
    /\ UNCHANGED <<gameVars, username, currentLobby, isHost, isReady, screen,
                   lobbyView>>

\* the buttons that only switch screens
openScreen(from, to) ==
    /\ OnLobbyPage /\ screen = Some(from)
    /\ screen' = showScreen(to)
    /\ lastEvent' = Event("showScreen", [screen |-> to])
    /\ UNCHANGED <<gameVars, sent, username, currentLobby, isHost, isReady, errors,
                   timers, lobbyView>>

\* the values createLobby sends for the entered texts
createConfig(form) ==
    [ smallBlind |-> numberOr(form.smallBlind, 5),
      bigBlind |-> numberOr(form.bigBlind, 10),
      startingFunds |-> numberOr(form.startingFunds, 1000),
      maxPlayers |-> numberOr(form.maxPlayers, 8) ]

\* the outcome of the two checks of createLobby and saveSettings
configProblem(config) ==
    IF config.bigBlind < config.smallBlind * 2
    THEN Some("Big blind must be at least double the small blind")
    ELSE IF config.startingFunds < config.bigBlind * 10
    THEN Some("Starting funds must be at least 10 times the big blind")
    ELSE None

lobbyNameOr(name, user) ==
    IF name = << >> THEN user \o "'s Table" ELSE Join(name)

\* click on #create-lobby-confirm-btn, the inputs holding `form`
createLobby(form) ==
    /\ OnLobbyPage /\ screen = Some(CreateScreen)
    /\ NoneOutstanding /\ Len(timers) < MaxTimers
    /\ IF configProblem(createConfig(form)) # None
       THEN rejected("create-lobby-error", Get(configProblem(createConfig(form))))
       ELSE emitted("create-lobby-error",
                    [type |-> "create_lobby",
                     name |-> lobbyNameOr(trim(form.name), username)]
                      @@ createConfig(form))
    /\ lastEvent' = Event("createLobby", form)
    /\ UNCHANGED <<gameVars, username, currentLobby, isHost, isReady, screen,
                   lobbyView>>

codeProblem_lengthOnly(code) ==
    IF code = << >> THEN Some("Please enter a lobby code")
    ELSE IF Len(code) # 6 THEN Some("Lobby code must be 6 letters")
    ELSE None

\* the outcome of joinLobby's checks
codeProblem(code) ==
    IF code = << >> THEN Some("Please enter a lobby code")
    ELSE IF Len(code) # 6 THEN Some("Lobby code must be 6 letters")
    ELSE IF ~onlyLetters(code) THEN Some("Lobby code must contain only letters")
    ELSE None

\* click on #join-lobby-confirm-btn, the input holding `value`
joinLobby(value) ==
    /\ OnLobbyPage /\ screen = Some(JoinScreen)
    /\ NoneOutstanding /\ Len(timers) < MaxTimers
    /\ IF codeProblem(toUpperCase(trim(value))) # None
       THEN rejected("join-lobby-error", Get(codeProblem(toUpperCase(trim(value)))))
       ELSE emitted("join-lobby-error",
                    [type |-> "join_lobby", code |-> toUpperCase(trim(value))])
    /\ lastEvent' = Event("joinLobby", [value |-> value])
    /\ UNCHANGED <<gameVars, username, currentLobby, isHost, isReady, screen,
                   lobbyView>>

\* a command without arguments: toggle_ready, leave_lobby, start_game
command(name, type) ==
    /\ NoneOutstanding
    /\ sent' = Append(sent, [type |-> type])
    /\ lastEvent' = Event(name, NoData)
    /\ UNCHANGED <<gameVars, lobbyVars>>

toggleReady ==
    /\ OnLobbyPage /\ screen = Some(RoomScreen)
    /\ command("toggleReady", "toggle_ready")

\* leaveLobby(): after confirm() was answered with OK
leaveLobby ==
    /\ OnLobbyPage /\ screen = Some(RoomScreen)
    /\ command("leaveLobby", "leave_lobby")

\* click on #start-game-btn, which the host sees and which is not disabled
startGame ==
    /\ OnLobbyPage /\ screen = Some(RoomScreen)
    /\ lobbyView.hostControlsDisplay = Some("inline-block")
    /\ lobbyView.startButton # None /\ ~Get(lobbyView.startButton).disabled
    /\ command("startGame", "start_game")

\* click on #edit-settings-btn: the editor is filled from the held snapshot
showSettingsEditor ==
    /\ OnLobbyPage /\ screen = Some(RoomScreen)
    /\ lobbyView.hostControlsDisplay = Some("inline-block")
    /\ currentLobby # None
    /\ lobbyView' = [lobbyView EXCEPT
                       !.editorOpen = Some(TRUE),
                       !.editor = Some([ smallBlind |-> toString(Get(currentLobby).config.smallBlind),
                                         bigBlind |-> toString(Get(currentLobby).config.bigBlind),
                                         startingFunds |-> toString(Get(currentLobby).config.startingFunds) ])]
    /\ lastEvent' = Event("showSettingsEditor", NoData)
    /\ UNCHANGED <<gameVars, sent, username, currentLobby, isHost, isReady, screen,
                   errors, timers>>

hideSettingsEditor(v) == [v EXCEPT !.editorOpen = Some(FALSE)]

\* click on #cancel-settings-btn
cancelSettings ==
    /\ OnLobbyPage /\ screen = Some(RoomScreen)
    /\ lobbyView.editorOpen = Some(TRUE)
    /\ lobbyView' = hideSettingsEditor(lobbyView)
    /\ lastEvent' = Event("cancelSettings", NoData)
    /\ UNCHANGED <<gameVars, sent, username, currentLobby, isHost, isReady, screen,
                   errors, timers>>

settingsConfig(form) ==
    [ smallBlind |-> numberOr(form.smallBlind, 5),
      bigBlind |-> numberOr(form.bigBlind, 10),
      startingFunds |-> numberOr(form.startingFunds, 1000) ]

\* click on #save-settings-btn, the editor's inputs holding `form`: a failed
\* check goes to showMessage, which only writes to the console
saveSettings(form) ==
    /\ OnLobbyPage /\ screen = Some(RoomScreen)
    /\ lobbyView.editorOpen = Some(TRUE)
    /\ NoneOutstanding
    /\ IF configProblem(settingsConfig(form)) # None
       THEN UNCHANGED <<sent, lobbyView>>
       ELSE /\ sent' = Append(sent, [type |-> "update_lobby_config"]
                                      @@ settingsConfig(form))
            /\ lobbyView' = hideSettingsEditor(lobbyView)
    /\ lastEvent' = Event("saveSettings", form)
    /\ UNCHANGED <<gameVars, username, currentLobby, isHost, isReady, screen,
                   errors, timers>>

----------------------------------------------------------------------------
(* The lobby room: joining or creating a lobby, then the room's events *)

ValidCode == << "a","b","c","d","e","f" >>

LobbyEvents == { [lobby |-> l] : l \in SeatSnapshots }

ConfigEvents == { [lobby |-> l] : l \in ConfigSnapshots }

\* texts of the settings editor's inputs when Save is clicked
SettingsForms ==
    { [smallBlind |-> << "5" >>, bigBlind |-> << "2","0" >>,
       startingFunds |-> << "2","0","0" >>],
      [smallBlind |-> << "5" >>, bigBlind |-> << "8" >>,
       startingFunds |-> << "2","0","0" >>],
      [smallBlind |-> << "0" >>, bigBlind |-> << "4" >>,
       startingFunds |-> << "4","0" >>] }

NextLobbyRoom ==
    \/ PokerClient
    \/ username_set([username |-> "Ann"])
    \/ openScreen(MenuScreen, JoinScreen)
    \/ joinLobby(ValidCode)
    \/ ServerReceive
    \/ \E l \in CreatedSnapshots : lobby_created([lobby |-> l])
    \/ \E l \in JoinedSnapshots :
           lobby_joined([lobby |-> l, assignedUsername |-> "Ann2"])
    \/ \E data \in LobbyEvents : player_joined(data)
    \/ \E data \in LobbyEvents : player_left(data)
    \/ \E data \in LobbyEvents : player_ready_changed(data)
    \/ \E data \in ConfigEvents : lobby_config_updated(data)
    \/ lobby_left(NoData)
    \/ toggleReady
    \/ startGame

SpecLobbyRoom == Init /\ [][NextLobbyRoom]_vars

----------------------------------------------------------------------------
(* The lobby forms: name, create, join and settings, with their error slots *)

Repeat(c, n) == [i \in 1..n |-> c]

\* texts of #username-input when the button is clicked
NameInputs ==
    { << >>, << " " >>, << "a" >>, << " ", "a", " " >>, << "a", "b" >>,
      << " ", "A", "n", "n", " " >>, Repeat("x", 20), Repeat("x", 21) }

\* texts of #lobby-code-input when the button is clicked
CodeInputs ==
    { << >>, ValidCode, << " ","a","B","c","D","e","F"," " >>,
      << "A","B","C","D","E" >>, << "A","B","C","1","E","F" >>,
      << "A","B","C","D","E","F","G" >> }

CreateForm(sb, bb, funds) ==
    [ name |-> << >>, smallBlind |-> sb, bigBlind |-> bb, startingFunds |-> funds,
      maxPlayers |-> << "6" >> ]

\* texts of the create-lobby inputs when the button is clicked
CreateForms ==
    { CreateForm(<< "5" >>, << "1","0" >>, << "1","0","0" >>),
      CreateForm(<< "8" >>, << "1","0" >>, << "1","0","0","0" >>),
      CreateForm(<< "5" >>, << "2","0","0" >>, << "1","0","0","0" >>),
      CreateForm(<< "0" >>, << "1","0" >>, << "1","0","0","0" >>),
      CreateForm(<< "0" >>, << "4" >>, << "4","0" >>),
      CreateForm(<< >>, << "1","0" >>, << "1","0","0","0" >>) }

HostAlone == Lobby("ABCDEF", ConfigA, << Me(TRUE, FALSE) >>)

NextLobbyForms ==
    \/ PokerClient
    \/ \E value \in NameInputs : setUsername(value)
    \/ username_set([username |-> "Ann"])
    \/ \E e \in ServerErrors : username_error([error |-> e])
    \/ openScreen(MenuScreen, CreateScreen)
    \/ openScreen(MenuScreen, JoinScreen)
    \/ openScreen(CreateScreen, MenuScreen)
    \/ openScreen(JoinScreen, MenuScreen)
    \/ \E form \in CreateForms : createLobby(form)
    \/ \E value \in CodeInputs : joinLobby(value)
    \/ \E e \in ServerErrors : lobby_error([error |-> e])
    \/ errorTimeout
    \/ ServerReceive
    \/ lobby_created([lobby |-> HostAlone])
    \/ showSettingsEditor
    \/ cancelSettings
    \/ \E form \in SettingsForms : saveSettings(form)
    \/ leaveLobby
    \/ lobby_left(NoData)

SpecLobbyForms == Init /\ [][NextLobbyForms]_vars

----------------------------------------------------------------------------
(* Claims on the lobby forms (checked under SpecLobbyForms) *)

AllDigits(text) == text # << >> /\ \A i \in 1..Len(text) : IsDigit(text[i])

\* the number a field's decimal text stands for
Entered(text) == leadingDigits(text, 0)

ValidBlinds(sb, bb, funds) == bb >= 2 * sb /\ funds >= 10 * bb

Shown(slot) == errors[slot].show /\ errors[slot].text # ""

\* C13: createLobby with numbers in all four fields sends, when
\* bigBlind >= 2*smallBlind and startingFunds >= 10*bigBlind, exactly one
\* create_lobby with the entered smallBlind, bigBlind, startingFunds and
\* maxPlayers; otherwise it sends nothing and shows an error in the
\* create-lobby slot.
C13_CreateSendsEntered ==
    [][ (Step("createLobby")
           /\ AllDigits(lastEvent'.data.smallBlind)
           /\ AllDigits(lastEvent'.data.bigBlind)
           /\ AllDigits(lastEvent'.data.startingFunds)
           /\ AllDigits(lastEvent'.data.maxPlayers)) =>
          LET f == lastEvent'.data
              sb == Entered(f.smallBlind)
              bb == Entered(f.bigBlind)
              funds == Entered(f.startingFunds)
          IN  IF ValidBlinds(sb, bb, funds)
              THEN /\ Len(sent') = Len(sent) + 1
                   /\ SubSeq(sent', 1, Len(sent)) = sent
                   /\ sent'[Len(sent')].type = "create_lobby"
                   /\ sent'[Len(sent')].smallBlind = sb
                   /\ sent'[Len(sent')].bigBlind = bb
                   /\ sent'[Len(sent')].startingFunds = funds
                   /\ sent'[Len(sent')].maxPlayers = Entered(f.maxPlayers)
              ELSE /\ sent' = sent
                   /\ errors'["create-lobby-error"].show
                   /\ errors'["create-lobby-error"].text # "" ]_vars

IsLetterCode(code) ==
    /\ Len(code) = 6
    /\ \A i \in 1..6 : \E k \in 1..Len(UpperAlpha) : UpperAlpha[k] = code[i]

Untrimmed(name) == name # << >> /\ (Head(name) = " " \/ name[Len(name)] = " ")

\* what the server accepts as well-formed in a message of the lobby page
WellFormed(m) ==
    /\ m.type = "set_username" =>
          Len(m.username) >= 2 /\ Len(m.username) <= 20 /\ ~Untrimmed(m.username)
    /\ m.type = "join_lobby" => IsLetterCode(m.code)
    /\ m.type \in {"create_lobby", "update_lobby_config"} =>
          ValidBlinds(m.smallBlind, m.bigBlind, m.startingFunds)

\* C14: every emitted set_username carries a trimmed name of 2 to 20
\* characters, every join_lobby a code of exactly 6 letters A-Z, every
\* create_lobby and update_lobby_config a big blind of at least twice the
\* small blind and starting funds of at least 10 times the big blind.
C14_OnlyValidInputSent == \A i \in 1..Len(sent) : WellFormed(sent[i])

\* a padded mixed-case code was sent trimmed and in upper case
C14_Witness ==
    /\ lastEvent.name = "joinLobby"
    /\ lastEvent.data.value = << " ","a","B","c","D","e","F"," " >>
    /\ sent = << [type |-> "join_lobby", code |-> << "A","B","C","D","E","F" >>] >>

\* the message of the check a submitted form fails, if it fails one
FailedCheck(name, data) ==
    IF name = "setUsername" THEN usernameProblem(trim(data.value))
    ELSE IF name = "joinLobby" THEN codeProblem(toUpperCase(trim(data.value)))
    ELSE IF name = "createLobby" THEN configProblem(createConfig(data))
    ELSE IF name = "saveSettings" THEN configProblem(settingsConfig(data))
    ELSE None

\* C15: every failed local check (set name, join by code, create lobby,
\* update config) puts its message, shown, into an error slot at once.
C15_FailuresAreShown ==
    [][ FailedCheck(lastEvent'.name, lastEvent'.data) # None =>
          \E slot \in ErrorSlots :
              errors'[slot] = [ text |-> Get(FailedCheck(lastEvent'.name, lastEvent'.data)),
                                show |-> TRUE ] ]_vars

\* C16: lobby_error writes its message, shown, into the create-lobby slot when
\* the create screen is the visible one and into the join-lobby slot when the
\* join screen is; a slot whose screen is not visible is left as it was, and
\* with neither screen visible the controller keeps nothing of the error, so
\* that opening a screen later shows none.
C16_LobbyErrorRouting ==
    /\ [][ Step("lobby_error") =>
             /\ errors'["create-lobby-error"] =
                   IF screen = Some(CreateScreen)
                   THEN [text |-> lastEvent'.data.error, show |-> TRUE]
                   ELSE errors["create-lobby-error"]
             /\ errors'["join-lobby-error"] =
                   IF screen = Some(JoinScreen)
                   THEN [text |-> lastEvent'.data.error, show |-> TRUE]
                   ELSE errors["join-lobby-error"]
             /\ errors'["username-error"] = errors["username-error"]
             /\ screen \notin {Some(CreateScreen), Some(JoinScreen)} =>
                   UNCHANGED <<lobbyVars, gameVars, sent>> ]_vars
    /\ [][ Step("showScreen") => errors' = errors ]_vars

\* a server error arrived on the join screen and is shown there only
C16_Witness ==
    /\ lastEvent.name = "lobby_error"
    /\ screen = Some(JoinScreen)
    /\ errors["join-lobby-error"] = [text |-> "Rejected by server", show |-> TRUE]
    /\ ~errors["create-lobby-error"].show

----------------------------------------------------------------------------
(* Claims on the lobby room (checked under SpecLobbyRoom) *)

\* start-game eligibility of a seat list
Eligible(players) ==
    Len(players) >= 2 /\ \A i \in 1..Len(players) : players[i].isReady

\* the start button a seat list calls for
ButtonFor(players) ==
    [ disabled |-> ~Eligible(players),
      text |-> IF Eligible(players) THEN "Start Game"
               ELSE IF Len(players) < 2 THEN "Need More Players"
               ELSE "Waiting for Players" ]

\* new is old with one more, not-ready, player at its end
AddsNotReady(old, new) ==
    /\ Len(new) = Len(old) + 1
    /\ SubSeq(new, 1, Len(old)) = old
    /\ ~new[Len(new)].isReady

\* new is old with its last player marked ready
MarksLastReady(old, new) ==
    /\ Len(new) = Len(old) /\ Len(old) > 0
    /\ ~old[Len(old)].isReady
    /\ new = [old EXCEPT ![Len(old)].isReady = TRUE]

\* C11: for the host, after player_joined, player_left and
\* player_ready_changed the start button is enabled iff the event's snapshot
\* has at least 2 players, all ready, and is labelled 'Need More Players'
\* below 2 players and 'Waiting for Players' otherwise when blocked; so a
\* player_joined adding a not-ready player to an all-ready lobby of 2 or more
\* disables it, and the player_ready_changed marking that player ready
\* enables it again.
C11_StartEligibility ==
    /\ [][ ((Step("player_joined") \/ Step("player_left")
               \/ Step("player_ready_changed")) /\ isHost) =>
             lobbyView'.startButton = Some(ButtonFor(lastEvent'.data.lobby.players)) ]_vars
    /\ [][ (Step("player_joined") /\ isHost /\ currentLobby # None
              /\ Eligible(Get(currentLobby).players)
              /\ AddsNotReady(Get(currentLobby).players,
                              lastEvent'.data.lobby.players)) =>
             Get(lobbyView'.startButton).disabled ]_vars
    /\ [][ (Step("player_ready_changed") /\ isHost /\ currentLobby # None
              /\ MarksLastReady(Get(currentLobby).players,
                                lastEvent'.data.lobby.players)
              /\ Eligible(lastEvent'.data.lobby.players)) =>
             ~Get(lobbyView'.startButton).disabled ]_vars

\* the third player has just been marked ready: the host may start
C11_Witness ==
    /\ lastEvent.name = "player_ready_changed"
    /\ isHost
    /\ Len(lastEvent.data.lobby.players) = 3
    /\ lobbyView.startButton = Some([disabled |-> FALSE, text |-> "Start Game"])

\* C12: after every event that replaces the held lobby snapshot, the host's
\* start button is the one the held snapshot calls for.
C12_StartButtonNeverStale ==
    [][ ((Step("lobby_created") \/ Step("lobby_joined") \/ Step("player_joined")
            \/ Step("player_left") \/ Step("player_ready_changed")
            \/ Step("lobby_config_updated")) /\ isHost') =>
          lobbyView'.startButton = Some(ButtonFor(Get(currentLobby').players)) ]_vars

OwnEntries(players) == { i \in 1..Len(players) : players[i].socketId = MySocketId }

ReadyLabel(ready) == IF ready THEN "Not Ready" ELSE "Ready Up"

\* C17: on lobby_joined the lobby room becomes the visible screen, the code
\* displayed is the snapshot's code, and isReady and the label of the ready
\* toggle are those of this client's own entry in the snapshot.
C17_JoinShowsRoom ==
    [][ Step("lobby_joined") =>
          /\ screen' = Some(RoomScreen)
          /\ lobbyView'.codeText = Some(lastEvent'.data.lobby.code)
          /\ \A i \in OwnEntries(lastEvent'.data.lobby.players) :
                /\ isReady' = lastEvent'.data.lobby.players[i].isReady
                /\ Get(lobbyView'.readyButton).text = ReadyLabel(isReady') ]_vars

\* join_lobby was emitted, lobby_joined has shown the room with a ready guest
C17_Witness ==
    /\ lastEvent.name = "lobby_joined"
    /\ sent = << [type |-> "join_lobby", code |-> << "A","B","C","D","E","F" >>] >>
    /\ screen = Some(RoomScreen)
    /\ lobbyView.codeText = Some("ABCDEF")
    /\ isReady
    /\ lobbyView.readyButton = Some([text |-> "Not Ready", cls |-> "btn-primary"])

----------------------------------------------------------------------------
(* Seats and cards: snapshots with every flag combination and odd card names *)

AceOfStars    == << "A","c","e"," ","o","f"," ","S","t","a","r","s" >>
UpperAce      == << "A","C","E"," ","O","F"," ","S","P","A","D","E","S" >>
NoSuit        == << "x"," ","o","f"," " >>
TwoSeparators == << "2"," ","o","f"," ","3"," ","o","f"," ","4" >>

\* card strings a snapshot can carry
CardInputs ==
    { AceOfSpades, ThreeOfHearts, KingOfClubs, TenOfDiamonds, Joker,
      AceOfStars, UpperAce, NoSuit, TwoSeparators, << >> }

\* one seat with the given flags, its hole card also lying on the board
SeatSnapshot(myTurn, folded, allIn, acted, card) ==
    [ CurrentPhase |-> Some("Flop"), Pot |-> Some(30),
      TurnManager |-> None, CurrentPlayer |-> Some("Ann"),
      Players |-> Some(<< Seat("Ann", 90, myTurn, folded, allIn, acted, 10,
                               Some(<< card >>), None) >>),
      Board |-> Some(<< card >>) ]

TableSnapshots ==
    { SeatSnapshot(m, f, a, h, AceOfSpades) : m \in BOOLEAN, f \in BOOLEAN,
                                             a \in BOOLEAN, h \in BOOLEAN }
      \cup { SeatSnapshot(FALSE, FALSE, FALSE, FALSE, c) : c \in CardInputs }

NextCards ==
    \/ PokerClient
    \/ \E g \in GameIds, t \in Tokens :
           transition_to_game([gameId |-> g, playerToken |-> t])
    \/ GameRoomClient(location.gameId)
    \/ ServerReceive
    \/ \E g \in TableSnapshots : game_state_update([gameState |-> Some(g)])

SpecCards == Init /\ [][NextCards]_vars

----------------------------------------------------------------------------
(* Claims on seats and cards (checked under SpecCards) *)

\* the statuses in their order of priority, each with the flag that gives it
StatusOrder == << "my-turn", "folded", "all-in", "acted", "to-act" >>

Applies(status, p) ==
    CASE status = "my-turn" -> p.IsMyTurn
      [] status = "folded"  -> p.IsFolded
      [] status = "all-in"  -> p.IsAllIn
      [] status = "acted"   -> p.HasActedThisRound
      [] OTHER              -> TRUE

\* the first status of the order that applies
StatusOf(p) ==
    StatusOrder[CHOOSE i \in 1..Len(StatusOrder) :
                   /\ Applies(StatusOrder[i], p)
                   /\ \A j \in 1..(i - 1) : ~Applies(StatusOrder[j], p)]

\* how a status is named by the CSS class and by the text
ClassNaming == [ s \in {"my-turn", "folded", "all-in", "acted", "to-act"} |->
                   CASE s = "my-turn" -> "current-turn"
                     [] s = "folded"  -> "folded"
                     [] s = "all-in"  -> "all-in"
                     [] s = "acted"   -> "acted"
                     [] OTHER         -> "" ]

TextNaming == [ s \in {"my-turn", "folded", "all-in", "acted", "to-act"} |->
                  CASE s = "my-turn" -> "Current Turn"
                    [] s = "folded"  -> "Folded"
                    [] s = "all-in"  -> "All In"
                    [] s = "acted"   -> "Waiting"
                    [] OTHER         -> "To Act" ]

\* C18: every seat of a rendered snapshot gets exactly one status, the first
\* match of my-turn > folded > all-in > acted-this-round > to-act, and the
\* item's CSS class and its status text both name that status (to-act has no
\* class of its own); a folded, all-in seat that is not to move is shown as
\* folded.
C18_TurnStatusPriority ==
    [][ Step("game_state_update") =>
          LET players == Get(Get(lastEvent'.data.gameState).Players)
          IN  /\ Len(view'.turnList) = Len(players)
              /\ \A i \in 1..Len(players) :
                    /\ view'.turnList[i].cls = ClassNaming[StatusOf(players[i])]
                    /\ view'.turnList[i].status = TextNaming[StatusOf(players[i])]
                    /\ (players[i].IsFolded /\ players[i].IsAllIn
                          /\ ~players[i].IsMyTurn) =>
                          /\ view'.turnList[i].cls = "folded"
                          /\ view'.turnList[i].status = "Folded" ]_vars

\* a folded, all-in seat that has acted is listed as folded
C18_Witness ==
    /\ lastEvent.name = "game_state_update"
    /\ gameState = Some(SeatSnapshot(FALSE, TRUE, TRUE, TRUE, AceOfSpades))
    /\ view.turnList[1].cls = "folded"
    /\ view.turnList[1].status = "Folded"

\* C19: parseCard gives a {display, isRed} result for every card string, never
\* an error: 'Ace of Spades' is A-spades in black, '3 of Hearts' 3-hearts in
\* red, 'Joker' is shown as it is in black, and no card of a pushed snapshot
\* makes it throw.
C19_ParseCardTotal ==
    /\ parseCard(AceOfSpades) = [display |-> "A" \o SuitSpades, isRed |-> FALSE]
    /\ parseCard(ThreeOfHearts) = [display |-> "3" \o SuitHearts, isRed |-> TRUE]
    /\ parseCard(Joker) = [display |-> "Joker", isRed |-> FALSE]
    /\ gameState # None =>
          \A i \in 1..Len(Get(Get(gameState).Board)) :
              parseCard(Get(Get(gameState).Board)[i]) # TypeError

----------------------------------------------------------------------------
(* A long session: errors keep arriving until the log is full and beyond *)

\* the errors the server reports, one after the other
LogErrors == << "E1", "E2", "E3" >>

\* the error after the one logged last, the first one after any other entry
Following(log) ==
    LET hits == { i \in 1..Len(LogErrors) :
                      log # << >> /\ Last(log).message = "Error: " \o LogErrors[i] }
    IN  IF hits = {} THEN LogErrors[1]
        ELSE LogErrors[((CHOOSE i \in hits : TRUE) % Len(LogErrors)) + 1]

\* game_error once the log is long: the errors arrive in their order
game_error_inOrder ==
    /\ Len(actionLog) >= MaxLog
    /\ onGameError([error |-> Following(actionLog)])

NextLog ==
    \/ PokerClient
    \/ \E g \in GameIds, t \in TokenInputs :
           transition_to_game([gameId |-> g, playerToken |-> t])
    \/ GameRoomClient(location.gameId)
    \/ ServerReceive
    \/ \E i \in 1..Len(LogErrors) : game_error([error |-> LogErrors[i]])
    \/ game_error_inOrder

SpecLog == Init /\ [][NextLog]_vars

----------------------------------------------------------------------------
(* Claims on the action log (checked under SpecLog) *)

\* new is old followed by the last k entries of new, cut at the front to the
\* most recent LogCap entries
Kept(old, new, k) ==
    /\ k <= Len(new)
    /\ LET all == old \o SubSeq(new, Len(new) - k + 1, Len(new))
           keep == IF Len(all) < LogCap THEN Len(all) ELSE LogCap
       IN  new = SubSeq(all, Len(all) - keep + 1, Len(all))

\* C20: the log never holds more than 20 entries; while the page stays, every
\* step leaves it as it was or appends entries at its end, entries leave it
\* only at the front and only as many as exceed 20, so that it always holds
\* the most recent min(n, 20) messages in their order of arrival; one
\* game_error appends exactly its one message.
C20_LogKeepsLatestTwenty ==
    /\ [](Len(actionLog) <= LogCap)
    /\ [][ location' = location =>
             \E k \in 0..2 : Kept(actionLog, actionLog', k) ]_vars
    /\ [][ Step("game_error") =>
             /\ Kept(actionLog, actionLog', 1)
             /\ Last(actionLog') = [ message |-> "Error: " \o lastEvent'.data.error,
                                     type |-> "system" ] ]_vars

\* the log is full of errors: the entries of the join have left at the front
C20_Witness ==
    /\ Len(actionLog) = LogCap
    /\ lastEvent.name = "game_error"
    /\ \A i \in 1..LogCap : actionLog[i].message \in
                               { "Error: " \o LogErrors[j] : j \in 1..Len(LogErrors) }
    /\ actionLog[LogCap].message = "Error: " \o lastEvent.data.error
    /\ actionLog[1].message # actionLog[LogCap].message

----------------------------------------------------------------------------
(* Claims on the connection lifecycle (checked under SpecJoin) *)

Lifecycle == {"connect", "disconnect", "connect_error"}

\* what the indicator shows after a lifecycle event
IndicatorAfter(name) ==
    CASE name = "connect"    -> [status |-> "connected", text |-> "Connected"]
      [] name = "disconnect" -> [status |-> "disconnected", text |-> "Disconnected"]
      [] OTHER               -> [status |-> "disconnected", text |-> "Connection Error"]

\* C21: connect, disconnect, connect_error and game_error emit nothing; a
\* message is emitted only by the start of a controller instance, which
\* happens once per page load and emits one join_game; and the connection
\* indicator shows the last lifecycle event, every other event of the page
\* leaving it as it is.
C21_NoAutomaticRetry ==
    /\ [][ (lastEvent'.name \in Lifecycle \/ Step("game_error")) => sent' = sent ]_vars
    /\ [][ Len(sent') > Len(sent) =>
             /\ Step("GameRoomClient") /\ ~loaded /\ loaded'
             /\ sent' = Append(sent, Last(sent'))
             /\ Last(sent').type = "join_game" ]_vars
    /\ [][ lastEvent'.name \in Lifecycle =>
             connectionStatus' = Some(IndicatorAfter(lastEvent'.name)) ]_vars
    /\ [][ (lastEvent'.name \notin Lifecycle /\ loaded /\ loaded') =>
             connectionStatus' = connectionStatus ]_vars

\* reconnected after a lost connection: nothing was emitted again
C21_Witness ==
    /\ lastEvent.name = "connect"
    /\ Logged(actionLog, "Joining game room...")
    /\ Logged(actionLog, "Connection lost. Please refresh the page.")
    /\ connectionStatus = Some([status |-> "connected", text |-> "Connected"])
    /\ sent = << >>

----------------------------------------------------------------------------
(* Claims on the held lobby snapshot (checked under SpecLobbyRoom) *)

Replacing == {"lobby_created", "lobby_joined", "player_joined", "player_left",
              "player_ready_changed", "lobby_config_updated"}

\* C22: the held lobby snapshot is empty at first, becomes non-empty only by
\* lobby_created or lobby_joined, is replaced by the snapshot of every later
\* lobby event while one is held, and is emptied by lobby_left, which also
\* resets the host and ready flags and shows the menu; while it is empty no
\* event other than lobby_created and lobby_joined fills it.
C22_SnapshotLifecycle ==
    /\ [][ (currentLobby = None /\ currentLobby' # None) =>
             (Step("lobby_created") \/ Step("lobby_joined")) ]_vars
    /\ [][ (currentLobby # None /\ lastEvent'.name \in Replacing) =>
             currentLobby' = Some(lastEvent'.data.lobby) ]_vars
    /\ [][ Step("lobby_left") =>
             /\ currentLobby' = None
             /\ ~isHost' /\ ~isReady'
             /\ screen' = Some(MenuScreen) ]_vars

\* this client's entry in the held snapshot says host, or there is none held
HostBySnapshot ==
    /\ currentLobby # None
    /\ \E i \in OwnEntries(Get(currentLobby).players) :
           Get(currentLobby).players[i].isHost

\* C26: whenever a lobby snapshot with this client's entry is held, isHost
\* and the visibility of the host controls are as the entry's host flag says.
C26_HostFlagFollowsSnapshot ==
    (currentLobby # None /\ OwnEntries(Get(currentLobby).players) # {}) =>
        /\ isHost = HostBySnapshot
        /\ lobbyView.hostControlsDisplay =
              Some(IF HostBySnapshot THEN "inline-block" ELSE "none")

----------------------------------------------------------------------------
(* Claims on the end of a prompt (checked under SpecAbility) *)

\* C25: a confirm that emits use_ability runs to its end without an error
\* and leaves, as the last entry of the action log, one 'Selection confirmed'
\* line titled with the ability that was confirmed.
C25_ConfirmCompletes ==
    [][ (Step("confirmSelection") /\ Len(sent') > Len(sent)) =>
          /\ ~lastEvent'.data.threw
          /\ overlayHidden'
          /\ Len(actionLog') > 0
          /\ Last(actionLog') =
                [ message |-> getAbilityTitle(currentChoices).title
                                \o " - Selection confirmed",
                  type |-> "player-action" ] ]_vars

\* C27: the overlay is visible exactly while an ability tag and its payload
\* are held, and both are empty exactly while it is hidden.
C27_PromptStateMatchesOverlay ==
    /\ ~overlayHidden <=> (currentAbility # None /\ currentChoices # None)
    /\ overlayHidden <=> (currentAbility = None /\ currentChoices = None)

\* a prompt was shown and then dismissed by a click outside the window
C27_Witness ==
    /\ lastEvent.name = "outsideClick"
    /\ content # EmptyContent
    /\ overlayHidden
    /\ currentAbility = None /\ currentChoices = None

----------------------------------------------------------------------------
(* Claims on unparseable cards (checked under SpecCards) *)

FourSuits == { << "h","e","a","r","t","s" >>, << "d","i","a","m","o","n","d","s" >>,
               << "c","l","u","b","s" >>, << "s","p","a","d","e","s" >> }

\* a '<rank> of <suit>' string naming one of the four suits, in any case
NamesSuit(card) ==
    LET parts == split(toLowerCase(card), << " ", "o", "f", " " >>)
    IN  Len(parts) = 2 /\ parts[2] \in FourSuits

\* C24: every card of the held snapshot that is not a '<rank> of <suit>'
\* string naming hearts, diamonds, clubs or spades is displayed verbatim, in
\* black.
C24_UnparseableShownVerbatim ==
    gameState # None =>
       \A i \in 1..Len(Get(Get(gameState).Board)) :
          LET card == Get(Get(gameState).Board)[i]
          IN  ~NamesSuit(card) =>
                 parseCard(card) = [display |-> Join(card), isRed |-> FALSE]

----------------------------------------------------------------------------
(* A game in progress: state pushes among room events, prompts and commands *)

NextSnapshot ==
    \/ PokerClient
    \/ \E g \in GameIds, t \in Tokens :
           transition_to_game([gameId |-> g, playerToken |-> t])
    \/ GameRoomClient(location.gameId)
    \/ ServerReceive
    \/ \E d \in RoomCounts : game_room_joined(d)
    \/ \E m \in WaitingMessages : waiting_for_players([message |-> m])
    \/ \E e \in GameErrors : game_error([error |-> e])
    \/ \E f \in SnapshotFields : game_started([gameState |-> f])
    \/ \E f \in SnapshotFields : game_state_update([gameState |-> f])
    \/ \E a \in PlayerActions, f \in SnapshotFields :
           player_action_result([PlayerAction |-> a, GameState |-> f])
    \/ \E m \in AbilityMessages, f \in SnapshotFields :
           ability_result([message |-> m, gameState |-> f])
    \/ \E i \in 1..MaxAbilityCards : useAbility(i)
    \/ ability_choice_required(PromptBurn)
    \/ \E e \in AbilityErrors : ability_error([error |-> e])
    \/ \E m \in CancelMessages : ability_cancelled([message |-> m])
    \/ confirmSelection
    \/ cancelAbility

SpecSnapshot == Init /\ [][NextSnapshot]_vars

----------------------------------------------------------------------------
(* Claims on the held game snapshot (checked under SpecSnapshot) *)

\* events and commands of the game page that carry or set no snapshot
NoSnapshot == {"game_room_joined", "waiting_for_players", "game_error",
               "ability_error", "ability_cancelled", "ability_choice_required",
               "ability_result", "useAbility", "confirmSelection",
               "cancelAbility", "ServerReceive"}

\* C23: game_started and game_state_update make the held game snapshot the
\* gameState of their payload, player_action_result the GameState of its
\* payload when it carries one; the events without a snapshot, the rendering
\* that follows a push, and the outbound commands (useAbility, confirm,
\* cancel) leave the held snapshot as it is.
C23_SnapshotIsLastPush ==
    /\ [][ (Step("game_started") \/ Step("game_state_update")) =>
             gameState' = lastEvent'.data.gameState ]_vars
    /\ [][ Step("player_action_result") =>
             gameState' = IF lastEvent'.data.GameState # None
                          THEN lastEvent'.data.GameState ELSE gameState ]_vars
    /\ [][ lastEvent'.name \in NoSnapshot => gameState' = gameState ]_vars

\* a snapshot was pushed, then a prompt was confirmed: the snapshot is the
\* one pushed, although the view was rendered and a command was sent
C23_Witness ==
    /\ lastEvent.name = "confirmSelection"
    /\ overlayHidden /\ content # EmptyContent
    /\ gameState = Some(SnapshotFlop)
    /\ view.banner.phase = "Flop"
    /\ sent # << >> /\ Last(sent).type = "use_ability"
    /\ Last(sent).ability = PromptBurn.abilityUsed

====
